---- MODULE Spec2Model ----
(***************************************************************************)
(* A model of the August chat application.                                 *)
(*                                                                         *)
(*   - the completion gateway, supabase/functions/openrouter-chat/index.ts *)
(*     (the serve handler), as the state machine of one request;           *)
(*   - the chat client, the Chat component of src/components/AuthGate.tsx  *)
(*     (ensureConversation, handleSend and the handlers around them),      *)
(*     against a model of the backing store.                               *)
(*                                                                         *)
(* Strings the code slices or matches are sequences of one-character       *)
(* strings; strings it only passes around are TLA+ strings.                *)
(***************************************************************************)
EXTENDS Integers, Sequences, FiniteSets, Bags, TLC

(***************************************************************************)
(* JavaScript / JSON values, as far as the handlers look into them.        *)
(***************************************************************************)
JUndef == [t |-> "undefined"]
JNull == [t |-> "null"]
JBool(b) == [t |-> "boolean", b |-> b]
JNum(n) == [t |-> "number", n |-> n]
JStr(s) == [t |-> "string", s |-> s]
JArr(a) == [t |-> "array", a |-> a]
JObj(f) == [t |-> "object", f |-> f]

\* x == null || x === undefined
Nullish(x) == x.t \in {"undefined", "null"}

\* Boolean(x), !x, x || y
Truthy(x) ==
  CASE x.t = "undefined" -> FALSE
    [] x.t = "null" -> FALSE
    [] x.t = "boolean" -> x.b
    [] x.t = "number" -> x.n # 0
    [] x.t = "string" -> x.s # <<>>
    [] OTHER -> TRUE

\* x.k on a value that is not null or undefined (there it throws a TypeError)
Get(x, k) == IF x.t = "object" /\ k \in DOMAIN x.f THEN x.f[k] ELSE JUndef

\* x?.k
OptGet(x, k) == IF Nullish(x) THEN JUndef ELSE Get(x, k)

\* x?.[i], i counted from 0
OptIndex(x, i) ==
  IF Nullish(x) THEN JUndef
  ELSE IF x.t = "array" /\ i + 1 \in 1..Len(x.a) THEN x.a[i + 1]
  ELSE IF x.t = "string" /\ i + 1 \in 1..Len(x.s) THEN JStr(<<x.s[i + 1]>>)
  ELSE JUndef

\* x ?? d
Coalesce(x, d) == IF Nullish(x) THEN d ELSE x

\* s.startsWith(p)
StartsWith(s, p) == Len(s) >= Len(p) /\ SubSeq(s, 1, Len(p)) = p

(***************************************************************************)
(* The completion gateway: one request through the serve handler.          *)
(***************************************************************************)

\* 'openai/gpt-oss-20b:free', the model used when the body names none
DefaultModel ==
  <<"o","p","e","n","a","i","/","g","p","t","-","o","s","s","-","2","0","b",":","f","r","e","e">>

\* 'google/', the prefix of the family with a native web-search flag
GooglePrefix == <<"g","o","o","g","l","e","/">>

\* a Response with a JSON body { error?, detail?, content? }
JsonResponse(status, error, detail, content) ==
  [status |-> status, error |-> error, detail |-> detail, content |-> content, text |-> ""]

\* a Response with a plain-text body
TextResponse(status, text) ==
  [status |-> status, error |-> "", detail |-> JUndef, content |-> JUndef, text |-> text]

NoResponse == TextResponse(0, "")

\* the Authorization header as the code sees it: null when absent, else a
\* string, here the sequence of its parts with 'Bearer ' as one part
NoHeader == [present |-> FALSE, parts |-> <<>>]
Header(parts) == [present |-> TRUE, parts |-> parts]

RECURSIVE RemoveFirst(_, _)
RemoveFirst(parts, p) ==
  IF parts = <<>> THEN <<>>
  ELSE IF Head(parts) = p THEN Tail(parts)
  ELSE <<Head(parts)>> \o RemoveFirst(Tail(parts), p)

\* authHeader?.replace('Bearer ', ''): undefined (here <<>>, as falsy as '')
\* when the header is absent
AccessTokenOf(h) == IF h.present THEN RemoveFirst(h.parts, "Bearer ") ELSE <<>>

\* the tokens the identity provider accepts
ValidTokens == {<<"tok-good">>}

\* the headers object of every upstream request
UpstreamHeaders(key) ==
  [Authorization |-> <<"Bearer ", key>>, ContentType |-> "application/json",
   Referer |-> "https://example.com", Title |-> "August Chat"]

\* the payload shapes
NativeShape(model, messages) ==
  [model |-> model, messages |-> messages, stream |-> FALSE, web_search |-> [enable |-> TRUE]]
ToolShape(model, messages) ==
  [model |-> model, messages |-> messages, stream |-> FALSE, tools |-> <<[type |-> "web_search"]>>]
PlainShape(model, messages) ==
  [model |-> model, messages |-> messages, stream |-> FALSE]

\* as IsNativeFamily, the prefix compared without its slash
IsNativeFamilyNoSlash(model) == StartsWith(model.s, SubSeq(GooglePrefix, 1, 6))

\* model.startsWith('google/')
IsNativeFamily(model) == StartsWith(model.s, GooglePrefix)

\* the attempts list
BuildAttempts(enableWeb, model, messages) ==
  (IF enableWeb
     THEN IF IsNativeFamily(model)
            THEN <<NativeShape(model, messages), ToolShape(model, messages)>>
            ELSE <<ToolShape(model, messages)>>
     ELSE <<>>)
  \o <<PlainShape(model, messages)>>

\* the handler's state: its position, its locals, and what it has done
\* a body, of a request or of an upstream reply: its text, and the value it
\* parses to when it is well-formed JSON
JsonBody(v) == [wellFormed |-> TRUE, value |-> v, raw |-> <<>>]
NotJsonBody == [wellFormed |-> FALSE, value |-> JUndef, raw |-> <<"<","h","t","m","l",">">>]

NoReq == [method |-> "", authHeader |-> NoHeader, body |-> NotJsonBody]
NoReply == [ok |-> FALSE, body |-> NotJsonBody]

GStart(env) ==
  [pc |-> "idle", env |-> env, req |-> NoReq,
   accessToken |-> <<>>, getUserCalls |-> 0, verified |-> FALSE, bodyRead |-> FALSE,
   messages |-> JUndef, model |-> JUndef, enableWeb |-> FALSE,
   attempts |-> <<>>, sent |-> <<>>, replies |-> <<>>,
   resp |-> NoReply, lastDetail |-> JNull, crashed |-> FALSE,
   response |-> NoResponse]

\* return new Response(...)
Respond(g, response) == [g EXCEPT !.pc = "done", !.response = response]

\* an exception leaves the handler: serve answers with its default error
\* response
Crash(g) ==
  [g EXCEPT !.pc = "done", !.crashed = TRUE,
            !.response = TextResponse(500, "Internal Server Error")]

\* the handler up to its first await: preflight, the bearer credential, the
\* configuration; then the verification call is under way
Receive(g, req) ==
  LET accessToken == AccessTokenOf(req.authHeader)
      g1 == [g EXCEPT !.req = req]
  IN IF req.method = "OPTIONS" THEN Respond(g1, TextResponse(200, "ok"))
     ELSE IF accessToken = <<>>
       THEN Respond(g1, JsonResponse(401, "Missing Authorization header", JUndef, JUndef))
     ELSE IF ~g.env.SUPABASE_URL \/ ~g.env.SUPABASE_SERVICE_ROLE_KEY
             \/ g.env.OPENROUTER_API_KEY = ""
       THEN Respond([g1 EXCEPT !.accessToken = accessToken],
                    JsonResponse(500, "Missing server configuration", JUndef, JUndef))
     ELSE [g1 EXCEPT !.accessToken = accessToken, !.pc = "getUser",
                     !.getUserCalls = g.getUserCalls + 1]

\* as GetUser, a rejected credential going on as an anonymous caller
GetUserLax(g) ==
  IF g.accessToken \notin ValidTokens
    THEN [g EXCEPT !.pc = "json"]
    ELSE [g EXCEPT !.verified = TRUE, !.pc = "json"]

\* supabaseAdmin.auth.getUser(accessToken) has answered
GetUser(g) ==
  IF g.accessToken \notin ValidTokens
    THEN Respond(g, JsonResponse(401, "Unauthorized", JUndef, JUndef))
    ELSE [g EXCEPT !.verified = TRUE, !.pc = "json"]

\* req.json(), the validation of the message list, headers and attempts
ReadBody(g) ==
  LET g1 == [g EXCEPT !.bodyRead = TRUE]
      body == g.req.body.value
  IN IF ~g.req.body.wellFormed
       THEN Respond(g1, JsonResponse(400, "Invalid JSON body", JUndef, JUndef))
     ELSE IF Nullish(body) THEN Crash(g1)
     ELSE LET messages == Coalesce(Get(body, "messages"), JArr(<<>>))
              model == IF Truthy(Get(body, "model")) THEN Get(body, "model")
                       ELSE JStr(DefaultModel)
              enableWeb == Truthy(Get(body, "enableWeb"))
          IN IF messages.t # "array" \/ Len(messages.a) = 0
               THEN Respond(g1, JsonResponse(400, "messages must be a non-empty array",
                                             JUndef, JUndef))
               ELSE [g1 EXCEPT !.messages = messages, !.model = model,
                               !.enableWeb = enableWeb,
                               !.attempts = BuildAttempts(enableWeb, model, messages),
                               !.pc = "fetch"]

\* after a failed attempt: try { lastDetail = await r.json() }
\* catch { lastDetail = await r.text() }. A body is read once: after json()
\* has consumed it and failed to parse it, text() rejects with a TypeError.
\* Then the loop goes on, or ends when the list is used up.
ReadDetail(g, r) ==
  IF r.body.wellFormed
    THEN [g EXCEPT !.lastDetail = r.body.value,
                   !.pc = IF Len(g.sent) = Len(g.attempts) THEN "exhausted" ELSE "fetch"]
    ELSE Crash(g)

\* as Fetch, the loop not left at a success while payloads remain
FetchNoBreak(g, r) ==
  LET payload == g.attempts[Len(g.sent) + 1]
      g1 == [g EXCEPT !.sent = Append(g.sent,
                                [headers |-> UpstreamHeaders(g.env.OPENROUTER_API_KEY),
                                 body |-> payload]),
                      !.replies = Append(g.replies, r)]
  IN IF r.ok
       THEN [g1 EXCEPT !.resp = r,
                       !.pc = IF Len(g1.sent) = Len(g.attempts) THEN "extract" ELSE "fetch"]
       ELSE ReadDetail(g1, r)

\* one turn of the attempt loop: the next payload is sent and r comes back
Fetch(g, r) ==
  LET payload == g.attempts[Len(g.sent) + 1]
      g1 == [g EXCEPT !.sent = Append(g.sent,
                                [headers |-> UpstreamHeaders(g.env.OPENROUTER_API_KEY),
                                 body |-> payload]),
                      !.replies = Append(g.replies, r)]
  IN IF r.ok THEN [g1 EXCEPT !.resp = r, !.pc = "extract"]
     ELSE ReadDetail(g1, r)

\* as Exhausted, the request headers put into the detail
ExhaustedLeaky(g) ==
  Respond(g, JsonResponse(500, "OpenRouter error",
                          JArr(<<g.lastDetail,
                                 JStr(UpstreamHeaders(g.env.OPENROUTER_API_KEY).Authorization)>>),
                          JUndef))

\* if (!resp): the failure carrying lastDetail
Exhausted(g) ==
  Respond(g, JsonResponse(500, "OpenRouter error", g.lastDetail, JUndef))

\* data?.choices?.[0]?.message?.content ?? ''
ExtractContent(data) ==
  Coalesce(OptGet(OptGet(OptIndex(OptGet(data, "choices"), 0), "message"), "content"),
           JStr(<<>>))

\* const data = await resp.json(); the content goes back with status 200
Extract(g) ==
  IF ~g.resp.body.wellFormed THEN Crash(g)
  ELSE Respond(g, JsonResponse(200, "", JUndef, ExtractContent(g.resp.body.value)))

(***************************************************************************)
(* The requests, configurations and upstream replies the gateway is run    *)
(* on.                                                                     *)
(***************************************************************************)
Methods == {"OPTIONS", "POST"}

AuthHeaders ==
  {NoHeader, Header(<<"Bearer ">>), Header(<<"Bearer ", "tok-good">>),
   Header(<<"Bearer ", "tok-bad">>), Header(<<"tok-good">>)}

\* one message list of a turn
HelloMessages ==
  JArr(<<JObj([role |-> JStr(<<"u","s","e","r">>), content |-> JStr(<<"H","i">>)])>>)

MessagesValues == {JUndef, JNull, JStr(<<"x">>), JArr(<<>>), HelloMessages}

ModelValues ==
  {JUndef, JStr(<<>>),
   JStr(<<"g","o","o","g","l","e","/","g">>),
   JStr(<<"g","o","o","g","l","e">>),
   JStr(<<"q","w","e","n","/","q">>)}

EnableWebValues == {JUndef, JBool(TRUE), JBool(FALSE)}

\* the JSON object with the given fields, a field left out when undefined
BodyObject(messages, model, enableWeb) ==
  LET val(k) == CASE k = "messages" -> messages
                  [] k = "model" -> model
                  [] OTHER -> enableWeb
      keys == {k \in {"messages", "model", "enableWeb"} : val(k) # JUndef}
  IN JObj([k \in keys |-> val(k)])

Bodies ==
  {NotJsonBody, JsonBody(JNull), JsonBody(JNum(7)), JsonBody(JStr(<<"x">>)),
   JsonBody(JArr(<<>>))}
  \cup {JsonBody(BodyObject(ms, md, ew)) :
          ms \in MessagesValues, md \in ModelValues, ew \in EnableWebValues}

Requests == [method : Methods, authHeader : AuthHeaders, body : Bodies]

\* the provider credential: unset, or one of two values
ApiKeys == {"", "sk-A", "sk-B"}
OtherKey(k) == CASE k = "sk-A" -> "sk-B" [] k = "sk-B" -> "sk-A" [] OTHER -> k

Envs == [SUPABASE_URL : BOOLEAN, SUPABASE_SERVICE_ROLE_KEY : BOOLEAN,
         OPENROUTER_API_KEY : ApiKeys]

\* completion bodies: every place the chain choices[0].message.content can break
Completion(content) ==
  JObj([choices |-> JArr(<<JObj([message |-> JObj([content |-> content])])>>)])

OkValues ==
  {JNull, JObj(<<>>), JObj([choices |-> JNull]), JObj([choices |-> JArr(<<>>)]),
   JObj([choices |-> JArr(<<JNull>>)]),
   JObj([choices |-> JArr(<<JObj(<<>>)>>)]),
   JObj([choices |-> JArr(<<JObj([message |-> JNull])>>)]),
   JObj([choices |-> JArr(<<JObj([message |-> JObj(<<>>)])>>)]),
   Completion(JNull), Completion(JStr(<<>>)), Completion(JStr(<<"H","i">>)),
   JObj([choices |-> JArr(<<JObj([message |-> JObj([content |-> JStr(<<"H","i">>)])]),
                            JObj([message |-> JObj([content |-> JStr(<<"N","o">>)])])>>)])}

ErrorValues ==
  {JNull, JObj([error |-> JStr(<<"e","1">>)]), JObj([error |-> JStr(<<"e","2">>)])}

Replies ==
  {[ok |-> TRUE, body |-> JsonBody(v)] : v \in OkValues}
  \cup {[ok |-> TRUE, body |-> NotJsonBody]}
  \cup {[ok |-> FALSE, body |-> JsonBody(v)] : v \in ErrorValues}
  \cup {[ok |-> FALSE, body |-> NotJsonBody]}

(***************************************************************************)
(* The chat client: the Chat component and the backing store.              *)
(*                                                                         *)
(* A handler runs from the event to its first await in one step, and each  *)
(* later step is one awaited call coming back together with the code up to *)
(* the next await.  A handler is the closure of the render it was bound    *)
(* in; React commits the state updates of a step before the next event is  *)
(* handled, so a handler reads the state as it is when the event arrives   *)
(* and keeps these values until it ends (captured below at the start of a  *)
(* send).  A functional update, setMessages((prev) => ...), reads the      *)
(* state as it is when it is applied.                                      *)
(***************************************************************************)

\* bounds of the model
MaxSends == 2
MaxIgnored == 1
MaxClicks == 1
MaxFaults == 1
MaxPicks == 1
MaxDeletes == 1
SidebarSends == 1
SidebarClicks == 2
FilesSends == 1
FilesPicks == 2
PromptSends == 1
PromptPicks == 1
RevealSends == 1
MaxDaysBack == 45
ExtractPicks == 2
GuardSends == 1
GuardPicks == 1
TitleSends == 1
MaxListed == 3
SendingSends == 1
SendingPicks == 1

\* the title is cut to TitleKeep characters and the ellipsis when the
\* content has more than TitleMax
TitleMax == 60
TitleKeep == 57
\* the one character U+2026
Ellipsis == "..."

\* title: null
NoTitle == <<>>

\* s.trim()
RECURSIVE TrimStart(_)
TrimStart(s) == IF s # <<>> /\ Head(s) = " " THEN TrimStart(Tail(s)) ELSE s
RECURSIVE TrimEnd(_)
TrimEnd(s) == IF s # <<>> /\ s[Len(s)] = " " THEN TrimEnd(SubSeq(s, 1, Len(s) - 1)) ELSE s
\* as Trim, the end of the text left as it is
TrimLeft(s) == TrimStart(s)
Trim(s) == TrimEnd(TrimStart(s))

\* s.slice(0, n)
Slice(s, n) == SubSeq(s, 1, IF n < Len(s) THEN n ELSE Len(s))

\* names.join(', ')
RECURSIVE JoinNames(_)
JoinNames(atts) ==
  IF atts = <<>> THEN <<>>
  ELSE IF Len(atts) = 1 THEN atts[1].name
  ELSE atts[1].name \o <<", ">> \o JoinNames(Tail(atts))

\* as AttachedFiles, without the words in front
AttachedFilesBare(atts) == JoinNames(atts)

\* `Attached files: ${attachments.map((a) => a.name).join(', ')}`
AttachedFiles(atts) == <<"Attached files: ">> \o JoinNames(atts)

\* text || (attachments.length > 0 ? `Attached files: ...` : '')
UserMessageContent(text, atts) ==
  IF text # <<>> THEN text
  ELSE IF Len(atts) > 0 THEN AttachedFiles(atts) ELSE <<>>

\* as Summarized, by the earlier userMessageContent.slice(0, 60)
SummarizedCut(content) == Slice(content, TitleMax)

\* userMessageContent.length > 60 ? `${userMessageContent.slice(0, 57)}...` : userMessageContent
Summarized(content) ==
  IF Len(content) > TitleMax THEN Slice(content, TitleKeep) \o <<Ellipsis>> ELSE content

\* as SendGuard, without the test of the text and the attachments
SendGuardAnyText(text, atts, isSending) == ~isSending

\* as SendGuard, without the test of the sending flag
SendGuardNoFlag(text, atts, isSending) == ~(text = <<>> /\ Len(atts) = 0)

\* if ((!text && attachments.length === 0) || sending) return
SendGuard(text, atts, isSending) == ~((text = <<>> /\ Len(atts) = 0) \/ isSending)

\* if (!activeConversation?.title): the title of the active conversation in
\* the rendered list decides, the store is not asked
TitleWanted(renderedTitle, storedTitle) == renderedTitle = NoTitle

\* a long stretch of one character at the head of a text is held as one
\* token, 19999 times 'x'
Run == "x * 19999"

\* the characters of a text, one by one: what length and slice count
Chars(text) ==
  IF text # <<>> /\ text[1] = Run THEN [k \in 1..19999 |-> "x"] \o Tail(text) ELSE text

\* as Clipped, the text whole
ClippedNot(text) == Chars(text)

\* a.textContent.slice(0, 20000)
Clipped(text) == Slice(Chars(text), 20000)

\* as SentAsImage, the extracted text not looked at
SentAsImageWithText(a) == StartsWith(a.type, <<"image/">>) /\ a.dataUrl # <<>>

\* the attachment goes to the images: it has no text (the first test of the
\* loop failed), a.type.startsWith('image/') && a.dataUrl
SentAsImage(a) == a.textContent = <<>> /\ StartsWith(a.type, <<"image/">>) /\ a.dataUrl # <<>>

\* the user unit(s) of the prompt for this turn
TurnUnits(content, atts) ==
  IF Len(atts) > 0
    THEN LET RECURSIVE Sections(_)
             Sections(as) ==
               IF as = <<>> THEN <<>>
               ELSE LET a == Head(as)
                    IN (IF a.textContent # <<>>
                          THEN <<"\n\n", "--- File: ">> \o a.name \o <<" ---", "\n">>
                               \o Clipped(a.textContent)
                        ELSE IF SentAsImage(a)
                          THEN <<>>
                        ELSE <<"\n\n", "--- File: ">> \o a.name \o <<" ---", "\n">>
                             \o <<"[No extractable text found. Type: ">> \o a.type
                             \o <<", ", ToString(a.size), " bytes]">>)
                       \o Sections(Tail(as))
             images == SelectSeq(atts, SentAsImage)
             combined == (IF content # <<>> THEN content ELSE <<"(no text, files attached)">>)
                         \o <<"\n\n[Attached files provided as inline text below]">>
                         \o Sections(atts)
         IN <<[role |-> "user", content |-> combined]>>
            \o (IF Len(images) > 0
                  THEN <<[role |-> "user",
                          content |-> [k \in 1..Len(images) |->
                                         [type |-> "image_url", url |-> images[k].dataUrl]]]>>
                  ELSE <<>>)
    ELSE <<[role |-> "user", content |-> content]>>

\* messagesForLLM: the rendered messages, then this turn's unit(s)
MessagesForLLM(msgs, content, atts) ==
  [k \in 1..Len(msgs) |-> [role |-> msgs[k].role, content |-> msgs[k].content]]
  \o TurnUnits(content, atts)

\* as RevealStep, the reveal never going forward
RevealStepNone(total) == 0

\* as RevealStep, without the least step of 1
RevealStepFloor(total) == total \div 120

\* Math.max(1, Math.floor(total / 120))
RevealStep(total) == IF total \div 120 > 1 THEN total \div 120 ELSE 1

\* `temp-${Date.now()}`, the id of the placeholder of send s
TempId(s) == 0 - s

\* handleFiles: maxCount and maxBytes
MaxCount == 5
MaxBytes == 10 * 1024 * 1024

\* a file of the picker.  A name and a media type are sequences of pieces,
\* the last piece of a name its extension; text is what readAsText gives,
\* url what readAsDataURL gives, pdf, docx and ocr what extractPdfText,
\* extractDocxText and extractImageOcr find in it (nothing when they fail),
\* and readable is whether the file can be read at all
TextFile ==
  [name |-> <<"n", ".txt">>, type |-> <<"text/", "plain">>, size |-> 12, readable |-> TRUE,
   text |-> <<"T">>, url |-> <<"data:">>,
   pdf |-> <<>>, docx |-> <<>>, ocr |-> <<>>]

\* a text file over maxBytes, an image, and a file of no known kind that is
\* maxBytes long
BigFile ==
  [name |-> <<"b", ".txt">>, type |-> <<"text/", "plain">>, size |-> MaxBytes + 1,
   readable |-> TRUE, text |-> <<"T">>, url |-> <<"data:">>,
   pdf |-> <<>>, docx |-> <<>>, ocr |-> <<>>]
ImageFile ==
  [name |-> <<"i", ".png">>, type |-> <<"image/", "png">>, size |-> 34, readable |-> TRUE,
   text |-> <<>>, url |-> <<"data:">>,
   pdf |-> <<>>, docx |-> <<>>, ocr |-> <<>>]
OtherFile ==
  [name |-> <<"o", ".bin">>, type |-> <<>>, size |-> MaxBytes, readable |-> TRUE,
   text |-> <<>>, url |-> <<"data:">>,
   pdf |-> <<>>, docx |-> <<>>, ocr |-> <<>>]

\* note.txt with the text 'abc', and a text file of 20001 characters
NoteFile ==
  [name |-> <<"note", ".txt">>, type |-> <<"text/", "plain">>, size |-> 3, readable |-> TRUE,
   text |-> <<"a", "b", "c">>, url |-> <<"data:">>,
   pdf |-> <<>>, docx |-> <<>>, ocr |-> <<>>]
LongFile ==
  [name |-> <<"l", ".txt">>, type |-> <<"text/", "plain">>, size |-> 20001, readable |-> TRUE,
   text |-> <<Run, "y", "z">>,
   url |-> <<"data:">>,
   pdf |-> <<>>, docx |-> <<>>, ocr |-> <<>>]

\* files that more than one branch of the classification could take, each
\* extractor finding a text of its own in them
Mixed(name, type, readable) ==
  [name |-> name, type |-> type, size |-> 7, readable |-> readable,
   text |-> <<" ", "R">>, url |-> <<"data:", name[1]>>,
   pdf |-> <<"P", " ">>, docx |-> <<"D", " ">>, ocr |-> <<"O", " ">>]
DocxType == <<"application/", "vnd.openxmlformats-officedocument.wordprocessingml.document">>
ScanFile == Mixed(<<"s", ".pdf">>, <<"image/", "png">>, TRUE)
CsvFile == Mixed(<<"c", ".csv">>, <<>>, TRUE)
PdfFile == Mixed(<<"q", ".PDF">>, <<>>, TRUE)
WordFile == Mixed(<<"w", ".docx">>, <<>>, TRUE)
ZipFile == Mixed(<<"z", ".zip">>, <<"application/", "zip">>, TRUE)

\* files that cannot be read, and files their extractor fails on
LostImage == Mixed(<<"li", ".png">>, <<"image/", "png">>, FALSE)
LostText == Mixed(<<"lt", ".txt">>, <<"text/", "plain">>, FALSE)
LostPdf == Mixed(<<"lp", ".pdf">>, <<"application/", "pdf">>, FALSE)
LostDocx == Mixed(<<"ld", ".docx">>, DocxType, FALSE)
BadPdf == [Mixed(<<"bp", ".pdf">>, <<"application/", "pdf">>, TRUE) EXCEPT !.pdf = <<>>]
BadDocx == [Mixed(<<"bd", ".docx">>, DocxType, TRUE) EXCEPT !.docx = <<>>]
BadImage == [Mixed(<<"bi", ".png">>, <<"image/", "png">>, TRUE) EXCEPT !.ocr = <<>>]

\* what the user picks at once
Selections == {<<TextFile>>}

\* what the user picks or drops at once in a session of attachments
Batches == {<<TextFile>>, <<TextFile, BigFile, ImageFile, OtherFile>>}

\* f.type || 'application/octet-stream'
TypeOf(f) == IF f.type = <<>> THEN <<"application/", "octet-stream">> ELSE f.type

\* the extension of a name, as the patterns with the i flag see it
Extension(name) ==
  LET e == name[Len(name)]
  IN CASE e = ".TXT" -> ".txt" [] e = ".PDF" -> ".pdf" [] e = ".DOCX" -> ".docx" [] OTHER -> e

\* as TextFamily, the name not looked at
TextFamilyByType(type, name) ==
  \/ StartsWith(type, <<"text/">>)
  \/ \E sub \in {"json", "xml", "csv"} : StartsWith(type, <<"application/", sub>>)

\* /^(text\/|application\/(json|xml|csv))/.test(item.type) ||
\* /\.(txt|md|json|csv)$/i.test(item.name)
TextFamily(type, name) ==
  \/ StartsWith(type, <<"text/">>)
  \/ \E sub \in {"json", "xml", "csv"} : StartsWith(type, <<"application/", sub>>)
  \/ Extension(name) \in {".txt", ".md", ".json", ".csv"}

\* the attachment made of an accepted file: the first of the branches image,
\* text, PDF, DOCX, other whose test holds fills it in; a read that
\* rejects is caught and leaves the item as it is
Item(f) ==
  LET type == TypeOf(f)
      item == [name |-> f.name, type |-> type, size |-> f.size, dataUrl |-> <<>>,
               textContent |-> <<>>]
  IN IF StartsWith(type, <<"image/">>)
       THEN IF f.readable
              THEN [item EXCEPT !.dataUrl = f.url, !.textContent = Trim(f.ocr)]
              ELSE item
     ELSE IF TextFamily(type, f.name)
       THEN IF f.readable THEN [item EXCEPT !.textContent = f.text] ELSE item
     ELSE IF type = <<"application/", "pdf">> \/ Extension(f.name) = ".pdf"
       THEN [item EXCEPT !.textContent = IF f.readable THEN Trim(f.pdf) ELSE <<>>]
     ELSE IF type = DocxType \/ Extension(f.name) = ".docx"
       THEN [item EXCEPT !.textContent = IF f.readable THEN Trim(f.docx) ELSE <<>>]
     ELSE item

\* the items handleFiles makes of a selection when count attachments are
\* pending: the files beyond the room left and the files over maxBytes
\* are skipped
\* as Items, each item put before the items of the files picked before it
RECURSIVE ItemsLastFirst(_)
ItemsLastFirst(files) ==
  IF files = <<>> THEN <<>>
  ELSE ItemsLastFirst(Tail(files))
       \o (IF Head(files).size > MaxBytes THEN <<>> ELSE <<Item(Head(files))>>)

\* as Items, a file that cannot be read left out
RECURSIVE ItemsOfRead(_)
ItemsOfRead(files) ==
  IF files = <<>> THEN <<>>
  ELSE (IF Head(files).size > MaxBytes \/ ~Head(files).readable
          THEN <<>> ELSE <<Item(Head(files))>>)
       \o ItemsOfRead(Tail(files))

RECURSIVE Items(_)
Items(files) ==
  IF files = <<>> THEN <<>>
  ELSE (IF Head(files).size > MaxBytes THEN <<>> ELSE <<Item(Head(files))>>)
       \o Items(Tail(files))

\* as Accepted, the room left not looked at
AcceptedAll(files, count) == files

\* files.slice(0, remaining), remaining = Math.max(0, maxCount - count)
Accepted(files, count) == Slice(files, IF MaxCount - count > 0 THEN MaxCount - count ELSE 0)

\* the notices of handleFiles: the one on the count, when the selection is
\* longer than the room left, and the names of the files it skips for their
\* size, one notice each
TooMany(files, count) == Len(files) > (IF MaxCount - count > 0 THEN MaxCount - count ELSE 0)
RECURSIVE Oversized(_)
Oversized(files) ==
  IF files = <<>> THEN <<>>
  ELSE (IF Head(files).size > MaxBytes THEN <<Head(files).name>> ELSE <<>>)
       \o Oversized(Tail(files))

\* what the user types, one text after the other
Typed == <<<<"A">>, <<" ", "B", " ">>>>

\* what the gateway call comes back with: an error, or a content
GatewayResults ==
  {[error |-> TRUE, content |-> <<>>], [error |-> FALSE, content |-> <<>>],
   [error |-> FALSE, content |-> <<"H", "i">>]}

\* the store at the start of a session: empty, or a conversation of an
\* earlier session with its title and its turn
InitialStores ==
  {[conversations |-> <<>>, messages |-> <<>>],
   [conversations |-> <<[id |-> 1, title |-> <<"O">>]>>,
    messages |-> <<[id |-> 1, conversation_id |-> 1, role |-> "user", content |-> <<"O">>],
                   [id |-> 2, conversation_id |-> 1, role |-> "assistant", content |-> <<"K">>]>>]}

\* the local calendar the sidebar reads dates in: the days of the window
\* are numbered from 1, 1 December 2025, and the time is in hours from the
\* local midnight of day 1
Months ==
  <<[name |-> "December", year |-> 2025, days |-> 31],
    [name |-> "January", year |-> 2026, days |-> 31],
    [name |-> "February", year |-> 2026, days |-> 28],
    [name |-> "March", year |-> 2026, days |-> 31],
    [name |-> "April", year |-> 2026, days |-> 30]>>

RECURSIVE DaysBefore(_)
DaysBefore(m) == IF m = 1 THEN 0 ELSE DaysBefore(m - 1) + Months[m - 1].days

WindowDays == DaysBefore(Len(Months)) + Months[Len(Months)].days

\* the month a day of the window falls in
MonthOf(day) ==
  Months[CHOOSE m \in 1..Len(Months) :
           DaysBefore(m) < day /\ day <= DaysBefore(m) + Months[m].days]

\* the time zones: no clock change, the clock put forward on 8 March or on
\* 29 March (a day of 23 hours), the clock put back on 5 April (25 hours)
Zones ==
  {[day |-> 0, hours |-> 24], [day |-> 98, hours |-> 23],
   [day |-> 119, hours |-> 23], [day |-> 126, hours |-> 25]}

\* new Date(y, m, d).getTime(): the local midnight of a day
StartOf(zone, day) ==
  24 * (day - 1) + (IF zone.day # 0 /\ zone.day < day THEN zone.hours - 24 ELSE 0)

\* getFullYear(), getMonth(), getDate(): the local day an instant falls on
DayOf(zone, t) ==
  CHOOSE day \in 1..WindowDays : StartOf(zone, day) <= t /\ t < StartOf(zone, day + 1)

\* as Round, rounding down
RoundDown(hours) == hours \div 24

\* Math.round(ms / (1000 * 60 * 60 * 24)), the time being in hours
Round(hours) == (hours + 12) \div 24

\* formatRelativeGroup
FormatRelativeGroup(zone, now, t) ==
  LET startOfToday == StartOf(zone, DayOf(zone, now))
      startOfThatDay == StartOf(zone, DayOf(zone, t))
      diffDays == Round(startOfToday - startOfThatDay)
      month == MonthOf(DayOf(zone, t))
  IN IF diffDays <= 0 THEN <<"Today">>
     ELSE IF diffDays = 1 THEN <<"Yesterday">>
     ELSE IF diffDays < 7 THEN <<ToString(diffDays), " days ago">>
     ELSE IF diffDays < 14 THEN <<"Last week">>
     ELSE IF diffDays < 21 THEN <<"2 weeks ago">>
     ELSE IF diffDays < 28 THEN <<"3 weeks ago">>
     ELSE <<month.name, " ", ToString(month.year)>>

\* the sidebar before it groups anything
NoGrouping ==
  [zone |-> [day |-> 0, hours |-> 24], now |-> 0, at |-> 0, label |-> <<>>,
   list |-> <<>>, groups |-> <<>>, grouped |-> FALSE]

\* as Flushed, the group under way never pushed
FlushedNever(groups, currentLabel, currentItems) == groups

\* if (currentLabel) groups.push({ label: currentLabel, items: currentItems })
Flushed(groups, currentLabel, currentItems) ==
  IF currentLabel # <<>>
    THEN Append(groups, [label |-> currentLabel, items |-> currentItems])
    ELSE groups

\* the loop of groupedConversations over the conversations left, and the
\* push after it
RECURSIVE GroupLoop(_, _, _, _, _, _)
GroupLoop(zone, now, left, groups, currentLabel, currentItems) ==
  IF left = <<>> THEN Flushed(groups, currentLabel, currentItems)
  ELSE LET c == Head(left)
           label == FormatRelativeGroup(zone, now, c.at)
       IN IF label # currentLabel
            THEN GroupLoop(zone, now, Tail(left), Flushed(groups, currentLabel, currentItems),
                           label, <<c>>)
            ELSE GroupLoop(zone, now, Tail(left), groups, currentLabel, Append(currentItems, c))

\* groupedConversations, of the filtered conversations
GroupedConversations(zone, now, list) == GroupLoop(zone, now, list, <<>>, <<>>, <<>>)

\* a send before it starts
NoSend ==
  [pc |-> "idle", activeId |-> 0, conversationId |-> 0, created |-> 0, content |-> <<>>,
   atts |-> <<>>,
   renderedTitle |-> NoTitle, renderedMessages |-> <<>>, insertedUser |-> FALSE,
   request |-> <<>>, assistantText |-> <<>>, i |-> 0, alerted |-> FALSE, calls |-> <<>>]

VARIABLES
  gw, gwAlt,                      \* the gateway request, see below
  dbConversations,                \* the store's conversations, last active first
  dbMessages,                     \* the store's messages, in order of creation
  nextConvId, nextMsgId,          \* the ids the store gives next
  conversations, activeId, messages, input, sending, attachments,  \* useState
  listLoad,                       \* the conversation list load of the mount is under way
  loads,                          \* the message loads under way: a bag of conversation ids
  sends,                          \* the handleSend calls that passed the guard, each
                                  \* with its locals and the calls it has made
  ignored,                        \* the send triggers turned away since the last step
                                  \* of any other kind
  clicks,                         \* the clicks in the sidebar so far
  picks,                          \* the selections of files so far
  fileReads,                      \* the handleFiles calls under way, each with its items
  faults,                         \* the calls the store or the gateway failed so far
  confirmDeleteId,                \* the conversation the delete dialog asks about, 0: closed
  deletions,                      \* the deletes sent to the store, each with what its
                                  \* handler saw: the id, and the activeId and the
                                  \* conversations of the render
  deleteClicks,                   \* the delete dialogs opened so far
  grouping,                       \* the clock, the date of a conversation's last activity
                                  \* and the label the sidebar groups it under
  limits                          \* how many sends, clicks, failed calls, selections of
                                  \* files and deletes the session is followed through

gatewayVars == <<gw, gwAlt>>
storeVars == <<dbConversations, dbMessages, nextConvId, nextMsgId>>
stateVars == <<conversations, activeId, messages, input, sending, attachments>>
deleteVars == <<confirmDeleteId, deletions, deleteClicks>>
runVars == <<listLoad, loads, sends, ignored, clicks, picks, fileReads, faults, deleteVars,
             limits, grouping>>
clientVars == <<storeVars, stateVars, runVars>>
vars == <<gatewayVars, clientVars>>

SendIds == 1..MaxSends

InFlight == {s \in SendIds : sends[s].pc \notin {"idle", "done"}}

\* the rows of a conversation, as select('*').eq('conversation_id', c)
\* .order('created_at') gives them
MessagesOf(c) == SelectSeq(dbMessages, LAMBDA m : m.conversation_id = c)

HasConversation(c) == \E k \in 1..Len(dbConversations) : dbConversations[k].id = c

StoredTitle(c) ==
  LET ks == {k \in 1..Len(dbConversations) : dbConversations[k].id = c}
  IN IF ks = {} THEN NoTitle ELSE dbConversations[CHOOSE k \in ks : TRUE].title

\* activeConversation?.title, from the rendered list
RenderedTitle(convs, c) ==
  LET ks == {k \in 1..Len(convs) : convs[k].id = c}
  IN IF ks = {} THEN NoTitle ELSE convs[CHOOSE k \in ks : \A j \in ks : k <= j].title

\* the store moves a conversation to the front when a message is inserted
\* under it (its updated_at advances)
Touched(convs, c) ==
  SelectSeq(convs, LAMBDA r : r.id = c) \o SelectSeq(convs, LAMBDA r : r.id # c)

\* setActiveId(id), and the effect on [activeId] that loads the messages of
\* a conversation that became active
SetActiveId(id) ==
  /\ activeId' = id
  /\ loads' = IF id # 0 /\ id # activeId THEN loads (+) SetToBag({id}) ELSE loads

\* the component at its mount, over a store, with the limits of the session
MountedAt(store, lim, group) ==
  /\ dbConversations = store.conversations
  /\ dbMessages = store.messages
  /\ nextConvId = Len(store.conversations) + 1
  /\ nextMsgId = Len(store.messages) + 1
  /\ conversations = <<>>
  /\ activeId = 0
  /\ messages = <<>>
  /\ input = <<>>
  /\ sending = FALSE
  /\ attachments = <<>>
  /\ listLoad = TRUE
  /\ loads = EmptyBag
  /\ sends = [s \in SendIds |-> NoSend]
  /\ ignored = <<>>
  /\ clicks = 0
  /\ picks = 0
  /\ fileReads = EmptyBag
  /\ faults = 0
  /\ confirmDeleteId = 0
  /\ deletions = EmptyBag
  /\ deleteClicks = 0
  /\ limits = lim
  /\ grouping = group

\* the component at its mount, the sidebar not looked at
Mounted(store, lim) == MountedAt(store, lim, NoGrouping)

\* the limits of a session of turns: no deletes
TurnLimits ==
  [sends |-> MaxSends, clicks |-> MaxClicks, faults |-> MaxFaults, picks |-> MaxPicks,
   deletes |-> 0, selections |-> Selections, replies |-> GatewayResults]

ClientInit == \E store \in InitialStores : Mounted(store, TurnLimits)

\* the store or the gateway answers a call, with a failure while the
\* session has not had its share of them
Answers(ok) ==
  /\ ok \/ faults < limits.faults
  /\ faults' = IF ok THEN faults ELSE faults + 1

\* the store answers the insert of a message under conversation c: it
\* turns down every message of a conversation it does not hold
Inserted(c, ok) ==
  /\ ok => HasConversation(c)
  /\ IF HasConversation(c) THEN Answers(ok) ELSE faults' = faults

\* a call of a send to the store or to the gateway, noted with its result
Called(rec, op, c, ok) ==
  [rec EXCEPT !.calls = Append(@, [op |-> op, conversation_id |-> c, ok |-> ok])]

\* as AfterUserInsert, the insert sent once more when it was sent once
AfterUserInsertAgain(rec) ==
  IF Cardinality({k \in 1..Len(rec.calls) : rec.calls[k].op = "insertUser"}) < 2
    THEN "insertUserFallback"
    ELSE "invoke"

\* where a send goes once the user message is dealt with: to the title
\* update, or straight to the gateway call
AfterUserInsert(rec) ==
  IF TitleWanted(rec.renderedTitle, StoredTitle(rec.conversationId)) THEN "updateTitle" ELSE "invoke"

\* as Emptied, the attachments left pending
EmptiedNot(atts) == atts

\* finally: setAttachments([])
Emptied(atts) == <<>>

\* as Finished, the catch block showing nothing
FinishedQuiet(rec, threw) ==
  [NoSend EXCEPT !.pc = "done", !.alerted = FALSE, !.activeId = rec.activeId,
                 !.conversationId = rec.conversationId, !.created = rec.created,
                 !.insertedUser = rec.insertedUser, !.calls = rec.calls]

\* finally { setSending(false); setAttachments([]) }, after the catch block
\* when the send threw; the locals of the call are gone, what stays is what
\* it did
Finished(rec, threw) ==
  [NoSend EXCEPT !.pc = "done", !.alerted = threw, !.activeId = rec.activeId,
                 !.conversationId = rec.conversationId, !.created = rec.created,
                 !.insertedUser = rec.insertedUser, !.calls = rec.calls]

\* the input's onChange: setInput(e.target.value)
TypeInput ==
  /\ LET k == Cardinality({s \in SendIds : sends[s].pc # "idle"}) + 1
     IN /\ k <= Len(Typed)
        /\ k <= limits.sends
        /\ input # Typed[k]
        /\ input' = Typed[k]
  /\ UNCHANGED <<gatewayVars, storeVars, conversations, activeId, messages, sending,
                 attachments, listLoad, loads, sends>>
  /\ ignored' = <<>>
  /\ UNCHANGED <<clicks, picks, fileReads, faults>>
  /\ UNCHANGED <<deleteVars, limits, grouping>>

\* the input's onChange, a blank typed into the empty input
TypeBlank ==
  /\ input = <<>>
  /\ input' = <<" ">>
  /\ UNCHANGED <<gatewayVars, storeVars, conversations, activeId, messages, sending,
                 attachments, listLoad, loads, sends>>
  /\ ignored' = <<>>
  /\ UNCHANGED <<clicks, picks, fileReads, faults>>
  /\ UNCHANGED <<deleteVars, limits, grouping>>

\* the input's onChange, a text of up to a hundred characters typed into
\* the empty input before any send
LongTexts ==
  {[k \in 1..n |-> IF k <= 57 THEN "a" ELSE IF k <= 60 THEN "b" ELSE "c"] :
     n \in {1, 57, 58, 60, 61, 100}}
TypeLong ==
  /\ input = <<>>
  /\ \A s \in SendIds : sends[s].pc = "idle"
  /\ \E text \in LongTexts : input' = text
  /\ UNCHANGED <<gatewayVars, storeVars, conversations, activeId, messages, sending,
                 attachments, listLoad, loads, sends>>
  /\ ignored' = <<>>
  /\ UNCHANGED <<clicks, picks, fileReads, faults>>
  /\ UNCHANGED <<deleteVars, limits, grouping>>

\* handleSend, from the click or the Enter key to its first awaited call:
\* a trigger that fails the guard returns at once; the others take the next
\* slot, set the sending flag and either have an active conversation, clear
\* the input and send the user message, or ask the store for a conversation
HandleSend ==
  /\ LET text == Trim(input)
     IN IF ~SendGuard(text, attachments, sending)
          THEN /\ Len(ignored) < MaxIgnored
               /\ ignored' = Append(ignored, [sending |-> sending,
                                              empty |-> text = <<>> /\ Len(attachments) = 0])
               /\ UNCHANGED <<gatewayVars, storeVars, stateVars, listLoad, loads, sends, clicks, picks, fileReads,
                              faults>>
          ELSE \E s \in SendIds :
                 /\ sends[s].pc = "idle"
                 /\ s <= limits.sends
                 /\ \A r \in SendIds : r < s => sends[r].pc # "idle"
                 /\ sending' = TRUE
                 /\ LET rec == [NoSend EXCEPT
                                  !.activeId = activeId,
                                  !.content = UserMessageContent(text, attachments),
                                  !.atts = attachments,
                                  !.renderedTitle = RenderedTitle(conversations, activeId),
                                  !.renderedMessages = messages]
                    IN IF activeId # 0
                         THEN /\ sends' = [sends EXCEPT ![s] =
                                             [rec EXCEPT !.conversationId = activeId,
                                                         !.pc = "insertUser"]]
                              /\ input' = <<>>
                         ELSE /\ sends' = [sends EXCEPT ![s] = [rec EXCEPT !.pc = "ensureConversation"]]
                              /\ input' = input
                 /\ ignored' = <<>>
                 /\ UNCHANGED <<gatewayVars, storeVars, conversations, activeId, messages,
                                attachments, listLoad, loads, clicks, picks,
                                fileReads, faults>>
  /\ UNCHANGED <<deleteVars, limits, grouping>>

\* ensureConversation's insert comes back: the new conversation heads the
\* list and becomes active, and handleSend goes on to send the user message;
\* or the insert failed, ensureConversation throws and the send ends
EnsureConversation(s) ==
  /\ sends[s].pc = "ensureConversation"
  /\ \E ok \in BOOLEAN :
       /\ Answers(ok)
       /\ LET rec == Called(sends[s], "insertConversation", IF ok THEN nextConvId ELSE 0, ok)
          IN IF ok
               THEN /\ dbConversations' = <<[id |-> nextConvId, title |-> NoTitle]>> \o dbConversations
                    /\ nextConvId' = nextConvId + 1
                    /\ conversations' = <<[id |-> nextConvId, title |-> NoTitle]>> \o conversations
                    /\ SetActiveId(nextConvId)
                    /\ input' = <<>>
                    /\ sends' = [sends EXCEPT ![s] = [rec EXCEPT !.conversationId = nextConvId,
                                                                  !.created = nextConvId,
                                                                  !.pc = "insertUser"]]
                    /\ UNCHANGED <<sending, attachments>>
               ELSE /\ sends' = [sends EXCEPT ![s] = Finished(rec, TRUE)]
                    /\ sending' = FALSE
                    /\ attachments' = Emptied(attachments)
                    /\ UNCHANGED <<dbConversations, nextConvId, conversations, activeId, loads, input>>
  /\ UNCHANGED <<gatewayVars, dbMessages, nextMsgId, messages, listLoad>>
  /\ ignored' = <<>>
  /\ UNCHANGED <<clicks, picks, fileReads>>
  /\ UNCHANGED <<deleteVars, limits, grouping>>

\* as NewMessage, under the conversation that is active when the row is made
NewMessageUnderActive(c, role, content) ==
  [id |-> nextMsgId, conversation_id |-> activeId, role |-> role, content |-> content]

\* the row the store makes of a message insert
NewMessage(c, role, content) ==
  [id |-> nextMsgId, conversation_id |-> c, role |-> role, content |-> content]

\* the store takes a message: the row is added and its conversation moves
\* to the front
StoreMessage(row) ==
  /\ dbMessages' = Append(dbMessages, row)
  /\ nextMsgId' = nextMsgId + 1
  /\ dbConversations' = Touched(dbConversations, row.conversation_id)

\* the insert of the user message comes back. With a row, the row is
\* appended to the list. Without one, and with attachments pending, the
\* insert is sent again without the attachments column; without one and
\* without attachments the send goes on with no row.
InsertUser(s) ==
  /\ sends[s].pc = "insertUser"
  /\ \E ok \in BOOLEAN :
       /\ Inserted(sends[s].conversationId, ok)
       /\ LET row == NewMessage(sends[s].conversationId, "user", sends[s].content)
              rec == Called(sends[s], "insertUser", row.conversation_id, ok)
          IN IF ok
               THEN /\ StoreMessage(row)
                    /\ messages' = Append(messages, row)
                    /\ sends' = [sends EXCEPT ![s] = [rec EXCEPT !.insertedUser = TRUE,
                                                                  !.pc = AfterUserInsert(rec)]]
               ELSE /\ UNCHANGED <<dbMessages, nextMsgId, dbConversations, messages>>
                    /\ sends' = [sends EXCEPT ![s] = [rec EXCEPT !.pc = IF Len(rec.atts) > 0
                                                                          THEN "insertUserFallback"
                                                                          ELSE AfterUserInsert(rec)]]
  /\ UNCHANGED <<gatewayVars, nextConvId, conversations, activeId, input, sending,
                 attachments, listLoad, loads>>
  /\ ignored' = <<>>
  /\ UNCHANGED <<clicks, picks, fileReads>>
  /\ UNCHANGED <<deleteVars, limits, grouping>>

\* the insert without the attachments column comes back
InsertUserFallback(s) ==
  /\ sends[s].pc = "insertUserFallback"
  /\ \E ok \in BOOLEAN :
       /\ Inserted(sends[s].conversationId, ok)
       /\ LET content == IF sends[s].content # <<>> THEN sends[s].content
                         ELSE AttachedFiles(sends[s].atts)
              row == NewMessage(sends[s].conversationId, "user", content)
              rec == Called(sends[s], "insertUser", row.conversation_id, ok)
          IN IF ok
               THEN /\ StoreMessage(row)
                    /\ messages' = Append(messages, row)
                    /\ sends' = [sends EXCEPT ![s] = [rec EXCEPT !.insertedUser = TRUE,
                                                                  !.pc = AfterUserInsert(rec)]]
               ELSE /\ UNCHANGED <<dbMessages, nextMsgId, dbConversations, messages>>
                    /\ sends' = [sends EXCEPT ![s] = [rec EXCEPT !.pc = AfterUserInsert(rec)]]
  /\ UNCHANGED <<gatewayVars, nextConvId, conversations, activeId, input, sending,
                 attachments, listLoad, loads>>
  /\ ignored' = <<>>
  /\ UNCHANGED <<clicks, picks, fileReads>>
  /\ UNCHANGED <<deleteVars, limits, grouping>>

\* the title update comes back; its result is not looked at
UpdateTitle(s) ==
  /\ sends[s].pc = "updateTitle"
  /\ \E ok \in BOOLEAN :
       /\ Answers(ok)
       /\ LET rec == Called(sends[s], "updateTitle", sends[s].conversationId, ok)
          IN /\ dbConversations' =
                  IF ok
                    THEN [k \in 1..Len(dbConversations) |->
                            IF dbConversations[k].id = rec.conversationId
                              THEN [dbConversations[k] EXCEPT !.title = Summarized(rec.content)]
                              ELSE dbConversations[k]]
                    ELSE dbConversations
             /\ sends' = [sends EXCEPT ![s] = [rec EXCEPT !.pc = "invoke"]]
  /\ UNCHANGED <<gatewayVars, dbMessages, nextConvId, nextMsgId, stateVars, listLoad, loads>>
  /\ ignored' = <<>>
  /\ UNCHANGED <<clicks, picks, fileReads>>
  /\ UNCHANGED <<deleteVars, limits, grouping>>

\* as HasContent, an empty reply taken for a reply
HasContentAlways(text) == TRUE

\* if (assistantText): the reply, '' when the response has no content, is
\* not the empty string
HasContent(text) == text # <<>>

\* the gateway call, made with the prompt built from the rendered messages,
\* comes back: with an error the send throws; with no content it ends;
\* with a content the placeholder is appended and the reveal starts
Invoke(s) ==
  /\ sends[s].pc = "invoke"
  /\ \E res \in limits.replies :
       /\ Answers(~res.error)
       /\ LET request == MessagesForLLM(sends[s].renderedMessages, sends[s].content, sends[s].atts)
              rec == [Called(sends[s], "invoke", sends[s].conversationId, ~res.error)
                        EXCEPT !.request = request]
          IN IF res.error
               THEN /\ sends' = [sends EXCEPT ![s] = Finished(rec, TRUE)]
                    /\ sending' = FALSE
                    /\ attachments' = Emptied(attachments)
                    /\ messages' = messages
             ELSE IF ~HasContent(res.content)
               THEN /\ sends' = [sends EXCEPT ![s] = Finished(rec, FALSE)]
                    /\ sending' = FALSE
                    /\ attachments' = Emptied(attachments)
                    /\ messages' = messages
             ELSE /\ sends' = [sends EXCEPT ![s] = [rec EXCEPT !.assistantText = res.content,
                                                                !.pc = "reveal"]]
                  /\ messages' = Append(messages,
                                        [id |-> TempId(s), conversation_id |-> rec.conversationId,
                                         role |-> "assistant", content |-> <<>>])
                  /\ UNCHANGED <<sending, attachments>>
  /\ UNCHANGED <<gatewayVars, storeVars, conversations, activeId, input, listLoad, loads>>
  /\ ignored' = <<>>
  /\ UNCHANGED <<clicks, picks, fileReads>>
  /\ UNCHANGED <<deleteVars, limits, grouping>>

\* one tick of the reveal interval; at the last tick the promise resolves
\* and the insert of the assistant message is sent
RevealTick(s) ==
  /\ sends[s].pc = "reveal"
  /\ LET rec == sends[s]
         total == Len(rec.assistantText)
         next == IF rec.i + RevealStep(total) < total THEN rec.i + RevealStep(total) ELSE total
         partial == Slice(rec.assistantText, next)
     IN /\ messages' = [k \in 1..Len(messages) |->
                          IF messages[k].id = TempId(s)
                            THEN [messages[k] EXCEPT !.content = partial]
                            ELSE messages[k]]
        /\ sends' = [sends EXCEPT ![s].i = next,
                                  ![s].pc = IF next >= total THEN "insertAssistant" ELSE "reveal"]
  /\ UNCHANGED <<gatewayVars, storeVars, conversations, activeId, input, sending,
                 attachments, listLoad, loads>>
  /\ ignored' = <<>>
  /\ UNCHANGED <<clicks, picks, fileReads, faults>>
  /\ UNCHANGED <<deleteVars, limits, grouping>>

\* as ReplaceTemp, the row appended and the placeholder left in the list
ReplaceTempKept(msgs, id, row) == Append(msgs, row)

\* prev.map((m) => (m.id === tempId ? insertedAssistant : m))
ReplaceTemp(msgs, id, row) ==
  [k \in 1..Len(msgs) |-> IF msgs[k].id = id THEN row ELSE msgs[k]]

\* as AssistantInserted, the placeholder taken off when no row comes back
AssistantInsertedOrDropped(msgs, id, row, ok) ==
  IF ok THEN ReplaceTemp(msgs, id, row) ELSE SelectSeq(msgs, LAMBDA m : m.id # id)

\* if (insertedAssistant) setMessages((prev) => prev.map(...))
AssistantInserted(msgs, id, row, ok) ==
  IF ok THEN ReplaceTemp(msgs, id, row) ELSE msgs

\* as AssistantContent, the text without its last character
AssistantContentShort(rec) == Slice(rec.assistantText, Len(rec.assistantText) - 1)

\* insert({ ..., role: 'assistant', content: assistantText })
AssistantContent(rec) == rec.assistantText

\* the insert of the assistant message, with the whole text, comes back:
\* a row takes the placeholder's place in the list; then the send ends
InsertAssistant(s) ==
  /\ sends[s].pc = "insertAssistant"
  /\ \E ok \in BOOLEAN :
       /\ Inserted(sends[s].conversationId, ok)
       /\ LET row == NewMessage(sends[s].conversationId, "assistant", AssistantContent(sends[s]))
              rec == Called(sends[s], "insertAssistant", row.conversation_id, ok)
          IN /\ IF ok
                  THEN StoreMessage(row)
                  ELSE UNCHANGED <<dbMessages, nextMsgId, dbConversations>>
             /\ messages' = AssistantInserted(messages, TempId(s), row, ok)
             /\ sends' = [sends EXCEPT ![s] = Finished(rec, FALSE)]
             /\ sending' = FALSE
             /\ attachments' = Emptied(attachments)
  /\ UNCHANGED <<gatewayVars, nextConvId, conversations, activeId, input, listLoad, loads>>
  /\ ignored' = <<>>
  /\ UNCHANGED <<clicks, picks, fileReads>>
  /\ UNCHANGED <<deleteVars, limits, grouping>>

\* handleNewConversation
HandleNewConversation ==
  /\ confirmDeleteId = 0
  /\ activeId # 0 \/ messages # <<>>
  /\ SetActiveId(0)
  /\ messages' = <<>>
  /\ UNCHANGED <<gatewayVars, storeVars, conversations, input, sending, attachments,
                 listLoad, sends>>
  /\ ignored' = <<>>
  /\ clicks < limits.clicks
  /\ clicks' = clicks + 1
  /\ UNCHANGED <<picks, fileReads, faults>>
  /\ UNCHANGED <<deleteVars, limits, grouping>>

\* a conversation of the sidebar is clicked: setActiveId(c.id)
SelectConversation ==
  /\ confirmDeleteId = 0
  /\ \E k \in 1..Len(conversations) :
       /\ conversations[k].id # activeId
       /\ SetActiveId(conversations[k].id)
  /\ UNCHANGED <<gatewayVars, storeVars, conversations, messages, input, sending,
                 attachments, listLoad, sends>>
  /\ ignored' = <<>>
  /\ clicks < limits.clicks
  /\ clicks' = clicks + 1
  /\ UNCHANGED <<picks, fileReads, faults>>
  /\ UNCHANGED <<deleteVars, limits, grouping>>

\* the conversation list asked for at the mount comes back: it replaces
\* the list, and its first conversation becomes active when the effect saw
\* none active (at the mount: none)
ListLoaded ==
  /\ listLoad
  /\ listLoad' = FALSE
  /\ \E ok \in BOOLEAN :
       /\ Answers(ok)
       /\ IF ok
            THEN /\ conversations' = dbConversations
                 /\ IF Len(dbConversations) > 0
                      THEN SetActiveId(dbConversations[1].id)
                      ELSE UNCHANGED <<activeId, loads>>
            ELSE UNCHANGED <<conversations, activeId, loads>>
  /\ UNCHANGED <<gatewayVars, storeVars, messages, input, sending, attachments, sends>>
  /\ ignored' = <<>>
  /\ UNCHANGED <<clicks, picks, fileReads>>
  /\ UNCHANGED <<deleteVars, limits, grouping>>

\* the rows of a message load come back: setMessages(data ?? [])
LoadMessages ==
  /\ \E c \in BagToSet(loads) :
       /\ loads' = loads (-) SetToBag({c})
       /\ messages' = MessagesOf(c)
  /\ UNCHANGED <<gatewayVars, storeVars, conversations, activeId, input, sending,
                 attachments, listLoad, sends>>
  /\ ignored' = <<>>
  /\ UNCHANGED <<clicks, picks, fileReads, faults>>
  /\ UNCHANGED <<deleteVars, limits, grouping>>

\* handleFiles, from the selection to its first read: the room left is
\* taken from the attachments of the render, and the items are made
HandleFiles ==
  /\ picks < limits.picks
  /\ picks' = picks + 1
  /\ \E files \in limits.selections :
       LET accepted == Accepted(files, Len(attachments))
       IN fileReads' = fileReads (+)
            SetToBag({[files |-> files, count |-> Len(attachments),
                       tooMany |-> TooMany(files, Len(attachments)),
                       skipped |-> Oversized(accepted), next |-> Items(accepted)]})
  /\ UNCHANGED <<gatewayVars, storeVars, stateVars, listLoad, loads, sends, clicks, faults>>
  /\ ignored' = <<>>
  /\ UNCHANGED <<deleteVars, limits, grouping>>

\* the reads of a handleFiles call are over:
\* setAttachments((prev) => [...prev, ...next])
FilesRead ==
  /\ \E next \in BagToSet(fileReads) :
       /\ fileReads' = fileReads (-) SetToBag({next})
       /\ attachments' = attachments \o next.next
  /\ UNCHANGED <<gatewayVars, storeVars, conversations, activeId, messages, input, sending,
                 listLoad, loads, sends, clicks, picks, faults>>
  /\ ignored' = <<>>
  /\ UNCHANGED <<deleteVars, limits, grouping>>

\* the delete mark of a conversation of the sidebar is clicked:
\* setConfirmDeleteId(c.id)
RequestDelete ==
  /\ confirmDeleteId = 0
  /\ deleteClicks < limits.deletes
  /\ deleteClicks' = deleteClicks + 1
  /\ \E k \in 1..Len(conversations) : confirmDeleteId' = conversations[k].id
  /\ UNCHANGED <<gatewayVars, storeVars, stateVars, listLoad, loads, sends, clicks, picks,
                 fileReads, faults, deletions, limits, grouping>>
  /\ ignored' = <<>>

\* Cancel, or a click beside the dialog: setConfirmDeleteId(null)
CancelDelete ==
  /\ confirmDeleteId # 0
  /\ confirmDeleteId' = 0
  /\ UNCHANGED <<gatewayVars, storeVars, stateVars, listLoad, loads, sends, clicks, picks,
                 fileReads, faults, deletions, deleteClicks, limits, grouping>>
  /\ ignored' = <<>>

\* Delete of the dialog, up to its await: the dialog closes and the delete
\* goes to the store; the handler keeps the id, and the activeId and the
\* conversations of the render it was made in
ConfirmDelete ==
  /\ confirmDeleteId # 0
  /\ confirmDeleteId' = 0
  /\ deletions' = deletions (+) SetToBag({[id |-> confirmDeleteId, activeId |-> activeId,
                                           conversations |-> conversations]})
  /\ UNCHANGED <<gatewayVars, storeVars, stateVars, listLoad, loads, sends, clicks, picks,
                 fileReads, faults, deleteClicks, limits, grouping>>
  /\ ignored' = <<>>

\* conversations.find((c) => c.id !== id), as an id, 0 when there is none
Fallback(convs, id) ==
  LET others == SelectSeq(convs, LAMBDA c : c.id # id)
  IN IF others = <<>> THEN 0 ELSE others[1].id

\* the store's answer to a delete reaches its handler.  "deleted": the row
\* is gone, and the messages under it with it; "error": the store turned the
\* delete down and said so in the result; "thrown": the call failed.  Only
\* a thrown failure reaches the catch block; after any other answer the
\* conversation leaves the list, and when it was the active one of the
\* handler's render the first other conversation of that render becomes
\* active and the message list is emptied
DeleteAnswered ==
  /\ \E d \in BagToSet(deletions), outcome \in {"deleted", "error", "thrown"} :
       /\ Answers(outcome = "deleted")
       /\ deletions' = deletions (-) SetToBag({d})
       /\ IF outcome = "deleted"
            THEN /\ dbConversations' = SelectSeq(dbConversations, LAMBDA c : c.id # d.id)
                 /\ dbMessages' = SelectSeq(dbMessages, LAMBDA m : m.conversation_id # d.id)
            ELSE UNCHANGED <<dbConversations, dbMessages>>
       /\ IF outcome = "thrown"
            THEN UNCHANGED <<conversations, activeId, loads, messages>>
            ELSE /\ conversations' = SelectSeq(conversations, LAMBDA x : x.id # d.id)
                 /\ IF d.activeId = d.id
                      THEN /\ SetActiveId(Fallback(d.conversations, d.id))
                           /\ messages' = <<>>
                      ELSE UNCHANGED <<activeId, loads, messages>>
  /\ UNCHANGED <<gatewayVars, nextConvId, nextMsgId, input, sending, attachments, listLoad,
                 sends, clicks, picks, fileReads, confirmDeleteId, deleteClicks, limits, grouping>>
  /\ ignored' = <<>>

\* the remove mark of an attachment is clicked:
\* setAttachments((prev) => prev.filter((x) => x.id !== a.id)); the ids are
\* all different, so one attachment leaves the list
RemoveAttachment ==
  /\ \E k \in 1..Len(attachments) :
       attachments' = SubSeq(attachments, 1, k - 1) \o SubSeq(attachments, k + 1, Len(attachments))
  /\ UNCHANGED <<gatewayVars, storeVars, conversations, activeId, messages, input, sending,
                 listLoad, loads, sends, clicks, picks, fileReads, faults, deleteVars, limits, grouping>>
  /\ ignored' = <<>>

ClientNext ==
  \/ TypeInput
  \/ HandleSend
  \/ \E s \in SendIds : EnsureConversation(s)
  \/ \E s \in SendIds : InsertUser(s)
  \/ \E s \in SendIds : InsertUserFallback(s)
  \/ \E s \in SendIds : UpdateTitle(s)
  \/ \E s \in SendIds : Invoke(s)
  \/ \E s \in SendIds : RevealTick(s)
  \/ \E s \in SendIds : InsertAssistant(s)
  \/ HandleNewConversation
  \/ SelectConversation
  \/ ListLoaded
  \/ LoadMessages
  \/ HandleFiles
  \/ FilesRead
  \/ RemoveAttachment

\* the client, with the gateway at rest
Init == ClientInit /\ gw = GStart([SUPABASE_URL |-> TRUE, SUPABASE_SERVICE_ROLE_KEY |-> TRUE, OPENROUTER_API_KEY |-> "sk-A"]) /\ gwAlt = gw

Next == ClientNext

Spec == Init /\ [][Next]_vars

\* the sidebar: turns of text, with conversations opened, started and
\* deleted
SidebarNext ==
  \/ TypeInput
  \/ HandleSend
  \/ \E s \in SendIds : EnsureConversation(s)
  \/ \E s \in SendIds : InsertUser(s)
  \/ \E s \in SendIds : UpdateTitle(s)
  \/ \E s \in SendIds : Invoke(s)
  \/ \E s \in SendIds : RevealTick(s)
  \/ \E s \in SendIds : InsertAssistant(s)
  \/ HandleNewConversation
  \/ SelectConversation
  \/ ListLoaded
  \/ LoadMessages
  \/ RequestDelete
  \/ CancelDelete
  \/ ConfirmDelete
  \/ DeleteAnswered

\* a store of three conversations of earlier sessions, the latest first
SidebarStore ==
  [conversations |-> <<[id |-> 3, title |-> <<"Q">>], [id |-> 2, title |-> <<"P">>],
                       [id |-> 1, title |-> <<"O">>]>>,
   messages |-> <<[id |-> 1, conversation_id |-> 1, role |-> "user", content |-> <<"O">>],
                  [id |-> 2, conversation_id |-> 2, role |-> "user", content |-> <<"P">>],
                  [id |-> 3, conversation_id |-> 3, role |-> "user", content |-> <<"Q">>]>>]

\* the sessions at the sidebar: over the stores of the turns with a click
\* and a failed call, or over the three conversations with more clicks and
\* no failed call; a delete in each
SidebarSessions ==
  {[store |-> store,
    limits |-> [sends |-> SidebarSends, clicks |-> MaxClicks, faults |-> MaxFaults,
                picks |-> 0, deletes |-> MaxDeletes, selections |-> {}, replies |-> GatewayResults]] : store \in InitialStores}
  \cup
  {[store |-> SidebarStore,
    limits |-> [sends |-> SidebarSends, clicks |-> SidebarClicks, faults |-> 0,
                picks |-> 0, deletes |-> MaxDeletes, selections |-> {}, replies |-> GatewayResults]]}

SidebarInit ==
  /\ \E session \in SidebarSessions : Mounted(session.store, session.limits)
  /\ gw = GStart([SUPABASE_URL |-> TRUE, SUPABASE_SERVICE_ROLE_KEY |-> TRUE, OPENROUTER_API_KEY |-> "sk-A"])
  /\ gwAlt = gw

SpecSidebar == SidebarInit /\ [][SidebarNext]_vars

\* the attachments: turns with files picked, dropped and removed
FilesNext ==
  \/ TypeInput
  \/ HandleSend
  \/ \E s \in SendIds : EnsureConversation(s)
  \/ \E s \in SendIds : InsertUser(s)
  \/ \E s \in SendIds : InsertUserFallback(s)
  \/ \E s \in SendIds : UpdateTitle(s)
  \/ \E s \in SendIds : Invoke(s)
  \/ \E s \in SendIds : RevealTick(s)
  \/ \E s \in SendIds : InsertAssistant(s)
  \/ ListLoaded
  \/ LoadMessages
  \/ HandleFiles
  \/ FilesRead
  \/ RemoveAttachment

\* the sessions of attachments, over an empty store: one send, a failed
\* call, and selections one after or during the other
FilesSessions ==
  {[store |-> [conversations |-> <<>>, messages |-> <<>>],
    limits |-> [sends |-> FilesSends, clicks |-> 0, faults |-> MaxFaults, picks |-> FilesPicks,
                deletes |-> 0, selections |-> Batches,
                replies |-> GatewayResults]]}

FilesInit ==
  /\ \E session \in FilesSessions : Mounted(session.store, session.limits)
  /\ gw = GStart([SUPABASE_URL |-> TRUE, SUPABASE_SERVICE_ROLE_KEY |-> TRUE, OPENROUTER_API_KEY |-> "sk-A"])
  /\ gwAlt = gw

SpecFiles == FilesInit /\ [][FilesNext]_vars

\* from files to the prompt: one selection, read, typed to or not, and sent
PromptNext ==
  \/ TypeInput
  \/ HandleSend
  \/ \E s \in SendIds : EnsureConversation(s)
  \/ \E s \in SendIds : InsertUser(s)
  \/ \E s \in SendIds : UpdateTitle(s)
  \/ \E s \in SendIds : Invoke(s)
  \/ \E s \in SendIds : RevealTick(s)
  \/ \E s \in SendIds : InsertAssistant(s)
  \/ ListLoaded
  \/ LoadMessages
  \/ HandleFiles
  \/ FilesRead

\* the selections of files of every kind
PromptSelections ==
  {<<NoteFile>>, <<LongFile>>, <<ImageFile>>, <<OtherFile>>,
   <<NoteFile, ImageFile, LongFile>>, <<OtherFile, NoteFile>>,
   <<ScanFile>>, <<LostImage>>, <<ScanFile, ImageFile, LostImage, ZipFile, BadImage>>}

\* the sessions from files to the prompt, over an empty store: one
\* selection and one send, no call fails
PromptSessions ==
  {[store |-> [conversations |-> <<>>, messages |-> <<>>],
    limits |-> [sends |-> PromptSends, clicks |-> 0, faults |-> 0, picks |-> PromptPicks,
                deletes |-> 0, selections |-> PromptSelections,
                replies |-> GatewayResults]]}

PromptInit ==
  /\ \E session \in PromptSessions : Mounted(session.store, session.limits)
  /\ gw = GStart([SUPABASE_URL |-> TRUE, SUPABASE_SERVICE_ROLE_KEY |-> TRUE, OPENROUTER_API_KEY |-> "sk-A"])
  /\ gwAlt = gw

SpecPrompt == PromptInit /\ [][PromptNext]_vars

\* the extraction: files are picked and read, nothing is sent
ExtractNext ==
  \/ HandleFiles
  \/ FilesRead

\* the selections of the extraction: each file alone, and batches in which
\* a file that fails, or is over maxBytes, comes before files that do not
ExtractFiles ==
  {ScanFile, CsvFile, PdfFile, WordFile, ZipFile, OtherFile, NoteFile, ImageFile,
   Mixed(<<"t", ".pdf">>, <<"text/", "plain">>, TRUE),
   Mixed(<<"x", ".docx">>, <<"application/", "xml">>, TRUE),
   Mixed(<<"m", ".md">>, <<"application/", "pdf">>, TRUE),
   Mixed(<<"j", ".json">>, DocxType, TRUE),
   Mixed(<<"p", ".docx">>, <<"application/", "pdf">>, TRUE),
   Mixed(<<"d", ".bin">>, DocxType, TRUE),
   LostImage, LostText, LostPdf, LostDocx, BadPdf, BadDocx, BadImage}
ExtractSelections ==
  {<<f>> : f \in ExtractFiles} \cup
  {<<LostText, CsvFile>>, <<BadPdf, LostImage, WordFile, BigFile, ZipFile>>,
   <<LostPdf, BadDocx, ScanFile, LostDocx, BadImage, PdfFile>>}

\* over an empty store, two selections
ExtractInit ==
  /\ Mounted([conversations |-> <<>>, messages |-> <<>>],
             [sends |-> 0, clicks |-> 0, faults |-> 0, picks |-> ExtractPicks,
              deletes |-> 0, selections |-> ExtractSelections,
              replies |-> GatewayResults])
  /\ gw = GStart([SUPABASE_URL |-> TRUE, SUPABASE_SERVICE_ROLE_KEY |-> TRUE, OPENROUTER_API_KEY |-> "sk-A"])
  /\ gwAlt = gw

SpecExtract == ExtractInit /\ [][ExtractNext]_vars

\* the guard: a turn in which blanks, text or a file may be there when the
\* send is asked for
GuardNext ==
  \/ TypeInput
  \/ TypeBlank
  \/ HandleSend
  \/ \E s \in SendIds : EnsureConversation(s)
  \/ \E s \in SendIds : InsertUser(s)
  \/ \E s \in SendIds : UpdateTitle(s)
  \/ \E s \in SendIds : Invoke(s)
  \/ \E s \in SendIds : RevealTick(s)
  \/ \E s \in SendIds : InsertAssistant(s)
  \/ ListLoaded
  \/ LoadMessages
  \/ HandleFiles
  \/ FilesRead
  \/ RemoveAttachment

\* one send and one selection, no call fails
GuardInit ==
  /\ \E store \in InitialStores :
       Mounted(store,
               [sends |-> GuardSends, clicks |-> 0, faults |-> 0, picks |-> GuardPicks,
                deletes |-> 0, selections |-> Selections, replies |-> GatewayResults])
  /\ gw = GStart([SUPABASE_URL |-> TRUE, SUPABASE_SERVICE_ROLE_KEY |-> TRUE, OPENROUTER_API_KEY |-> "sk-A"])
  /\ gwAlt = gw

SpecGuard == GuardInit /\ [][GuardNext]_vars

\* the title: a turn of a short or a long text, in which a call may fail
TitleNext ==
  \/ TypeLong
  \/ HandleSend
  \/ \E s \in SendIds : EnsureConversation(s)
  \/ \E s \in SendIds : InsertUser(s)
  \/ \E s \in SendIds : UpdateTitle(s)
  \/ \E s \in SendIds : Invoke(s)
  \/ \E s \in SendIds : RevealTick(s)
  \/ \E s \in SendIds : InsertAssistant(s)
  \/ ListLoaded
  \/ LoadMessages

TitleInit ==
  /\ \E store \in InitialStores :
       Mounted(store,
               [sends |-> TitleSends, clicks |-> 0, faults |-> MaxFaults, picks |-> 0,
                deletes |-> 0, selections |-> {}, replies |-> GatewayResults])
  /\ gw = GStart([SUPABASE_URL |-> TRUE, SUPABASE_SERVICE_ROLE_KEY |-> TRUE, OPENROUTER_API_KEY |-> "sk-A"])
  /\ gwAlt = gw

SpecTitle == TitleInit /\ [][TitleNext]_vars

\* the end of a send: a turn with or without a file in which every call
\* comes back, done or failed, and the interval of the reveal keeps firing
SendingNext ==
  \/ TypeInput
  \/ HandleSend
  \/ \E s \in SendIds : EnsureConversation(s)
  \/ \E s \in SendIds : InsertUser(s)
  \/ \E s \in SendIds : InsertUserFallback(s)
  \/ \E s \in SendIds : UpdateTitle(s)
  \/ \E s \in SendIds : Invoke(s)
  \/ \E s \in SendIds : RevealTick(s)
  \/ \E s \in SendIds : InsertAssistant(s)
  \/ ListLoaded
  \/ LoadMessages
  \/ HandleFiles
  \/ FilesRead

SendingInit ==
  /\ \E store \in InitialStores :
       Mounted(store,
               [sends |-> SendingSends, clicks |-> 0, faults |-> MaxFaults,
                picks |-> SendingPicks, deletes |-> 0, selections |-> Selections,
                replies |-> GatewayResults])
  /\ gw = GStart([SUPABASE_URL |-> TRUE, SUPABASE_SERVICE_ROLE_KEY |-> TRUE, OPENROUTER_API_KEY |-> "sk-A"])
  /\ gwAlt = gw

SpecSending ==
  /\ SendingInit
  /\ [][SendingNext]_vars
  /\ \A s \in SendIds :
       /\ WF_vars(EnsureConversation(s))
       /\ WF_vars(InsertUser(s))
       /\ WF_vars(InsertUserFallback(s))
       /\ WF_vars(UpdateTitle(s))
       /\ WF_vars(Invoke(s))
       /\ WF_vars(RevealTick(s))
       /\ WF_vars(InsertAssistant(s))

\* the reveal: a turn of text whose reply is short or long
RevealNext ==
  \/ TypeInput
  \/ HandleSend
  \/ \E s \in SendIds : EnsureConversation(s)
  \/ \E s \in SendIds : InsertUser(s)
  \/ \E s \in SendIds : UpdateTitle(s)
  \/ \E s \in SendIds : Invoke(s)
  \/ \E s \in SendIds : RevealTick(s)
  \/ \E s \in SendIds : InsertAssistant(s)
  \/ ListLoaded
  \/ LoadMessages

\* the replies of the gateway by their lengths: of step 1, of step 2 with
\* a last step of 2, and of step 3 with a last step of 1
RevealResults ==
  {[error |-> FALSE, content |-> [k \in 1..n |-> IF k = n THEN "z" ELSE "x"]] :
     n \in {1, 2, 250, 361}}

\* one send, no call fails
RevealInit ==
  /\ \E store \in InitialStores :
       Mounted(store,
               [sends |-> RevealSends, clicks |-> 0, faults |-> 0, picks |-> 0,
                deletes |-> 0, selections |-> {}, replies |-> RevealResults])
  /\ gw = GStart([SUPABASE_URL |-> TRUE, SUPABASE_SERVICE_ROLE_KEY |-> TRUE, OPENROUTER_API_KEY |-> "sk-A"])
  /\ gwAlt = gw

\* the interval of the reveal fires every 20 ms while it is set
SpecReveal ==
  RevealInit /\ [][RevealNext]_vars /\ \A s \in SendIds : WF_vars(RevealTick(s))

(***************************************************************************)
(* The gateway as a state machine.  gw is the request under the configured *)
(* credential; gwAlt is the same request, with the same replies from the   *)
(* identity provider and from upstream, served under the other credential. *)
\* the sidebar groups a conversation by the date of its last activity
GroupConversations ==
  /\ ~grouping.grouped
  /\ grouping' = [grouping EXCEPT
                    !.label = FormatRelativeGroup(grouping.zone, grouping.now, grouping.at),
                    !.groups = GroupedConversations(grouping.zone, grouping.now, grouping.list),
                    !.grouped = TRUE]
  /\ UNCHANGED <<gatewayVars, storeVars, stateVars, listLoad, loads, sends, ignored, clicks,
                 picks, fileReads, faults, deleteVars, limits>>

GroupingNext == GroupConversations

\* the days the sidebar is looked at: 17 January, 9 March, 30 March, 5 and
\* 6 April 2026, at midnight and at one in the afternoon; the dates of last
\* activity: whole days before the local midnight of today, and an hour or
\* 23 hours after them; one day is in the future
GroupingInputs ==
  {[zone |-> zone, now |-> StartOf(zone, today) + nh,
    at |-> StartOf(zone, today) - 24 * back + h, label |-> <<>>,
    list |-> <<>>, groups |-> <<>>, grouped |-> FALSE] :
     zone \in Zones, today \in {48, 99, 120, 126, 127}, nh \in {0, 13},
     back \in (0 - 1)..MaxDaysBack, h \in {0, 1, 23}}

GroupingInit ==
  /\ \E group \in GroupingInputs :
       MountedAt([conversations |-> <<>>, messages |-> <<>>], TurnLimits, group)
  /\ gw = GStart([SUPABASE_URL |-> TRUE, SUPABASE_SERVICE_ROLE_KEY |-> TRUE, OPENROUTER_API_KEY |-> "sk-A"])
  /\ gwAlt = gw

SpecGrouping == GroupingInit /\ [][GroupingNext]_vars

\* the lists of the sidebar: up to MaxListed conversations, in any order,
\* last active now, an hour, a day, 3, 10 or 40 days before one in the
\* afternoon of 9 March 2026
ListedNow == StartOf([day |-> 0, hours |-> 24], 99) + 13
ListedLists ==
  UNION {[1..n -> {ListedNow - back : back \in {0, 1, 24, 72, 240, 960}}] : n \in 0..MaxListed}

ListingInit ==
  /\ \E ats \in ListedLists :
       MountedAt([conversations |-> <<>>, messages |-> <<>>], TurnLimits,
                 [NoGrouping EXCEPT !.now = ListedNow, !.at = ListedNow,
                                    !.list = [k \in 1..Len(ats) |-> [id |-> k, at |-> ats[k]]]])
  /\ gw = GStart([SUPABASE_URL |-> TRUE, SUPABASE_SERVICE_ROLE_KEY |-> TRUE, OPENROUTER_API_KEY |-> "sk-A"])
  /\ gwAlt = gw

SpecListing == ListingInit /\ [][GroupingNext]_vars

(***************************************************************************)
\* the client stays as it starts, with an empty store
RestingClient ==
  /\ dbConversations = <<>> /\ dbMessages = <<>> /\ nextConvId = 1 /\ nextMsgId = 1
  /\ conversations = <<>> /\ activeId = 0 /\ messages = <<>> /\ input = <<>>
  /\ sending = FALSE /\ attachments = <<>>
  /\ listLoad = TRUE /\ loads = EmptyBag /\ sends = [s \in SendIds |-> NoSend]
  /\ ignored = <<>> /\ clicks = 0 /\ picks = 0 /\ fileReads = EmptyBag /\ faults = 0
  /\ confirmDeleteId = 0 /\ deletions = EmptyBag /\ deleteClicks = 0
  /\ limits = TurnLimits
  /\ grouping = NoGrouping

GInit ==
  /\ RestingClient
  /\ \E env \in Envs :
       /\ gw = GStart(env)
       /\ gwAlt = GStart([env EXCEPT !.OPENROUTER_API_KEY = OtherKey(@)])

GReceive ==
  /\ gw.pc = "idle"
  /\ \E req \in Requests :
       /\ gw' = Receive(gw, req)
       /\ gwAlt' = IF gwAlt.pc = "idle" THEN Receive(gwAlt, req) ELSE gwAlt
  /\ UNCHANGED clientVars

GGetUser ==
  /\ gw.pc = "getUser"
  /\ gw' = GetUser(gw)
  /\ gwAlt' = IF gwAlt.pc = "getUser" THEN GetUser(gwAlt) ELSE gwAlt
  /\ UNCHANGED clientVars

GReadBody ==
  /\ gw.pc = "json"
  /\ gw' = ReadBody(gw)
  /\ gwAlt' = IF gwAlt.pc = "json" THEN ReadBody(gwAlt) ELSE gwAlt
  /\ UNCHANGED clientVars

GFetch ==
  /\ gw.pc = "fetch"
  /\ \E r \in Replies :
       /\ gw' = Fetch(gw, r)
       /\ gwAlt' = IF gwAlt.pc = "fetch" THEN Fetch(gwAlt, r) ELSE gwAlt
  /\ UNCHANGED clientVars

GExhausted ==
  /\ gw.pc = "exhausted"
  /\ gw' = Exhausted(gw)
  /\ gwAlt' = IF gwAlt.pc = "exhausted" THEN Exhausted(gwAlt) ELSE gwAlt
  /\ UNCHANGED clientVars

GExtract ==
  /\ gw.pc = "extract"
  /\ gw' = Extract(gw)
  /\ gwAlt' = IF gwAlt.pc = "extract" THEN Extract(gwAlt) ELSE gwAlt
  /\ UNCHANGED clientVars

GNext == GReceive \/ GGetUser \/ GReadBody \/ GFetch \/ GExhausted \/ GExtract

SpecGateway == GInit /\ [][GNext]_vars

(***************************************************************************)
(* Properties of the gateway, checked under SpecGateway.                   *)
(***************************************************************************)

\* the request of gw, once received
GPost == gw.pc # "idle" /\ gw.req.method # "OPTIONS"

\* the shape of a payload, read off its fields
ShapeOf(payload) ==
  IF "web_search" \in DOMAIN payload THEN "native"
  ELSE IF "tools" \in DOMAIN payload THEN "tools"
  ELSE "plain"

ShapesOf(attempts) == [i \in 1..Len(attempts) |-> ShapeOf(attempts[i])]

\* C1. Negotiation order. Once the attempt list is built: with enableWeb
\* true and a model whose identifier starts with 'google/' the shapes are
\* native flag, tool declaration, no tools; with enableWeb true and any
\* other model, tool declaration, no tools; otherwise no tools only. The
\* last element is always the no-tools shape, every payload carries the
\* request's model and messages, and what has been sent upstream is the
\* beginning of the list, in its order.
C1_NegotiationOrder ==
  /\ gw.pc \in {"fetch", "extract", "exhausted"} => gw.attempts # <<>>
  /\ gw.attempts # <<>> =>
       LET body == gw.req.body.value
           web == Get(body, "enableWeb") = JBool(TRUE)
           named == Get(body, "model")
           model == IF named.t = "string" /\ named.s # <<>> THEN named.s ELSE DefaultModel
           google == Len(model) >= 7 /\ SubSeq(model, 1, 7) = <<"g","o","o","g","l","e","/">>
       IN /\ web /\ google => ShapesOf(gw.attempts) = <<"native", "tools", "plain">>
          /\ web /\ ~google => ShapesOf(gw.attempts) = <<"tools", "plain">>
          /\ ~web => ShapesOf(gw.attempts) = <<"plain">>
          /\ ShapeOf(gw.attempts[Len(gw.attempts)]) = "plain"
          /\ \A i \in 1..Len(gw.attempts) :
               /\ gw.attempts[i].model = JStr(model)
               /\ gw.attempts[i].messages = Get(body, "messages")
               /\ gw.attempts[i].stream = FALSE
          /\ Len(gw.sent) <= Len(gw.attempts)
          /\ \A i \in 1..Len(gw.sent) : gw.sent[i].body = gw.attempts[i]

\* all three shapes of a native-family request have been tried, in order
C1_Witness ==
  /\ gw.pc = "done"
  /\ Len(gw.sent) = 3
  /\ ShapesOf(gw.attempts) = <<"native", "tools", "plain">>
  /\ [i \in 1..3 |-> ShapeOf(gw.sent[i].body)] = <<"native", "tools", "plain">>

\* C2. First success wins. Every reply but the last one received is a
\* failure, so nothing is sent after a success; and a request that ends
\* with 200 and a content ended on a successful last reply, whose body is
\* where the content comes from.
C2_FirstSuccessWins ==
  /\ Len(gw.replies) = Len(gw.sent)
  /\ \A i \in 1..Len(gw.replies) : i < Len(gw.replies) => ~gw.replies[i].ok
  /\ gw.pc = "extract" => gw.replies # <<>> /\ gw.resp = gw.replies[Len(gw.replies)] /\ gw.resp.ok
  /\ GPost /\ gw.pc = "done" /\ gw.response.status = 200 =>
       /\ gw.replies # <<>>
       /\ gw.replies[Len(gw.replies)].ok
       /\ gw.response.content = ExtractContent(gw.replies[Len(gw.replies)].body.value)

\* a success after a failure, with a payload of the list left unsent
C2_Witness ==
  /\ gw.pc = "done"
  /\ gw.response.status = 200
  /\ Len(gw.replies) = 2
  /\ Len(gw.attempts) = 3
  /\ gw.response.content = JStr(<<"H","i">>)

\* what a failed reply carries as diagnostic: its JSON value, or its text
Diagnostic(body) == IF body.wellFormed THEN body.value ELSE JStr(body.raw)

\* every payload of the list was sent and every reply was a failure
AllAttemptsFailed ==
  /\ gw.attempts # <<>>
  /\ Len(gw.replies) = Len(gw.attempts)
  /\ \A i \in 1..Len(gw.replies) : ~gw.replies[i].ok

\* C3. Exhaustion. When every attempt of the list has failed, whatever the
\* failure bodies, the request ends with status 500, error 'OpenRouter
\* error' and, as detail, the diagnostic body of the last attempt.
C3_Exhaustion ==
  gw.pc = "done" /\ AllAttemptsFailed =>
    /\ gw.response.status = 500
    /\ gw.response.error = "OpenRouter error"
    /\ gw.response.detail = Diagnostic(gw.replies[Len(gw.replies)].body)

\* the bearer credential of the request: there at all, and accepted
CredentialPresent == gw.req.authHeader.present /\ AccessTokenOf(gw.req.authHeader) # <<>>
CredentialValid == CredentialPresent /\ AccessTokenOf(gw.req.authHeader) \in ValidTokens
ConfigurationComplete ==
  gw.env.SUPABASE_URL /\ gw.env.SUPABASE_SERVICE_ROLE_KEY /\ gw.env.OPENROUTER_API_KEY # ""

\* no body read and nothing sent upstream but for a verified credential, and
\* the phases in their order
VerifiedBeforeUse ==
  /\ gw.verified => CredentialValid /\ gw.getUserCalls = 1
  /\ gw.bodyRead \/ gw.sent # <<>> => gw.verified
  /\ gw.pc \in {"json", "fetch", "extract", "exhausted"} => gw.verified
  /\ gw.pc \in {"fetch", "extract", "exhausted"} => gw.bodyRead
  /\ gw.sent # <<>> => gw.bodyRead

\* C4 as stated. A request other than OPTIONS has no body read and nothing
\* sent upstream unless its credential is present and verified, and ends
\* with status 401 whenever the credential is missing or is not accepted.
C4_AuthGateAsStated ==
  /\ VerifiedBeforeUse
  /\ GPost /\ gw.pc = "done" /\ ~CredentialValid => gw.response.status = 401

\* C4, amended. As C4, but a credential that is present and not accepted
\* ends the request with 401 when the server configuration is complete;
\* when a configuration value is missing the request ends with 500
\* 'Missing server configuration' and no verification call is made.
C4_AuthGate ==
  /\ VerifiedBeforeUse
  /\ GPost /\ gw.pc = "done" /\ ~CredentialPresent =>
       gw.response.status = 401 /\ gw.getUserCalls = 0
  /\ GPost /\ gw.pc = "done" /\ CredentialPresent /\ ~CredentialValid =>
       IF ConfigurationComplete
         THEN gw.response.status = 401 /\ gw.getUserCalls = 1
         ELSE /\ gw.response.status = 500
              /\ gw.response.error = "Missing server configuration"
              /\ gw.getUserCalls = 0

\* a rejected credential with a malformed body: 401, the body never read
C4_Witness ==
  /\ gw.pc = "done"
  /\ gw.req.method = "POST"
  /\ CredentialPresent /\ ~CredentialValid
  /\ ~gw.req.body.wellFormed
  /\ gw.getUserCalls = 1
  /\ gw.response.status = 401
  /\ ~gw.bodyRead

\* the body holds a non-empty array of messages
HasMessages(body) ==
  /\ body.wellFormed
  /\ body.value.t = "object"
  /\ "messages" \in DOMAIN body.value.f
  /\ body.value.f.messages.t = "array"
  /\ Len(body.value.f.messages.a) > 0

\* C5. Body validation. An authenticated request whose body is not
\* well-formed JSON, or is JSON of any kind without a non-empty array of
\* messages, ends with status 400, and nothing is sent upstream for it.
C5_BodyValidation ==
  gw.verified /\ ~HasMessages(gw.req.body) =>
    /\ gw.sent = <<>>
    /\ gw.pc = "done" => gw.response.status = 400

\* C6. Credential non-leak. The same request with the same replies, served
\* under the other credential, is at the same point, has built the same
\* Response and has sent the same payloads; the credential is in the
\* Authorization header of each upstream request and the rest of the
\* request does not depend on it.
C6_NoCredentialLeak ==
  /\ gwAlt.env.OPENROUTER_API_KEY = OtherKey(gw.env.OPENROUTER_API_KEY)
  /\ gwAlt.pc = gw.pc
  /\ gwAlt.response = gw.response
  /\ Len(gwAlt.sent) = Len(gw.sent)
  /\ \A i \in 1..Len(gw.sent) :
       /\ gw.sent[i].body = gwAlt.sent[i].body
       /\ gw.sent[i].headers.Authorization = <<"Bearer ", gw.env.OPENROUTER_API_KEY>>
       /\ gwAlt.sent[i].headers.Authorization = <<"Bearer ", gwAlt.env.OPENROUTER_API_KEY>>
       /\ [gw.sent[i].headers EXCEPT !.Authorization = <<>>]
            = [gwAlt.sent[i].headers EXCEPT !.Authorization = <<>>]

\* an exhausted negotiation under two different credentials
C6_Witness ==
  /\ gw.pc = "done"
  /\ gw.env.OPENROUTER_API_KEY = "sk-A"
  /\ gwAlt.env.OPENROUTER_API_KEY = "sk-B"
  /\ gw.response.error = "OpenRouter error"
  /\ gw.response.detail = JObj([error |-> JStr(<<"e","1">>)])
  /\ Len(gw.sent) = 2

\* the text of the first choice's message, '' when any step to it is missing
FirstChoiceText(v) ==
  IF /\ v.t = "object"
     /\ "choices" \in DOMAIN v.f
     /\ v.f.choices.t = "array"
     /\ Len(v.f.choices.a) >= 1
     /\ v.f.choices.a[1].t = "object"
     /\ "message" \in DOMAIN v.f.choices.a[1].f
     /\ v.f.choices.a[1].f.message.t = "object"
     /\ "content" \in DOMAIN v.f.choices.a[1].f.message.f
     /\ v.f.choices.a[1].f.message.f.content.t = "string"
  THEN v.f.choices.a[1].f.message.f.content
  ELSE JStr(<<>>)

\* C7. Success extraction. A request one of whose attempts succeeded ends
\* with status 200 and a body whose only field is content, the text of the
\* first choice's message, or '' when choices, the first choice, its
\* message or its content is missing.
C7_SuccessExtraction ==
  gw.pc = "done" /\ gw.replies # <<>> /\ gw.replies[Len(gw.replies)].ok =>
    /\ gw.response.status = 200
    /\ gw.response.error = "" /\ gw.response.detail = JUndef /\ gw.response.text = ""
    /\ gw.response.content = FirstChoiceText(gw.replies[Len(gw.replies)].body.value)

(***************************************************************************)
(* The client's claims, checked under Spec.                                *)
(***************************************************************************)

\* the unchanged state of the program but for the note of a trigger
Untouched == UNCHANGED <<gatewayVars, storeVars, stateVars, listLoad, loads, sends, clicks, picks,
                         fileReads, faults>>

\* C8. Single in-flight send. At most one send is in progress in every
\* state, the sending flag is set exactly while one is, no send starts
\* while another is in progress, and a trigger that arrives while one is
\* in progress changes nothing: no call is made and no state is set.
C8_SingleInFlight ==
  /\ [](Cardinality(InFlight) <= 1 /\ (sending <=> InFlight # {}))
  /\ [][/\ \A s \in SendIds : sends[s].pc = "idle" /\ sends'[s].pc # "idle" => InFlight = {}
        /\ InFlight # {} /\ InFlight' # {} /\ Len(ignored') > Len(ignored) => Untouched]_vars

\* a send is in progress, and a trigger with a text to send was turned away
C8_Witness ==
  /\ InFlight # {}
  /\ \E k \in 1..Len(ignored) : ignored[k].sending /\ ~ignored[k].empty

\* the calls of a send that the store took, by operation
Taken(s, ops) == {k \in 1..Len(sends[s].calls) : sends[s].calls[k].op \in ops /\ sends[s].calls[k].ok}
Issued(s, ops) == {k \in 1..Len(sends[s].calls) : sends[s].calls[k].op \in ops}

\* the writes of a turn
Writes == {"insertUser", "updateTitle", "insertAssistant"}

\* the conversation of a turn: the one the send created, or else the one
\* that was active when it started
TurnConversation(s) ==
  IF Taken(s, {"insertConversation"}) # {}
    THEN sends[s].calls[CHOOSE k \in Taken(s, {"insertConversation"}) : TRUE].conversation_id
    ELSE sends[s].activeId

\* every write of a send is under the conversation of its turn
UnderOneConversation(s) ==
  \A k \in Issued(s, Writes) : sends[s].calls[k].conversation_id = TurnConversation(s)

\* C9, as stated. A send that is over has created exactly one conversation
\* when none was active at its start and none otherwise, and its writes are
\* all under that one conversation.
C9_EnsureConversationAsStated ==
  \A s \in SendIds :
    sends[s].pc = "done" =>
      /\ Cardinality(Taken(s, {"insertConversation"})) = IF sends[s].activeId = 0 THEN 1 ELSE 0
      /\ UnderOneConversation(s)

\* C9. A send asks the store for a conversation exactly once when none was
\* active at its start and never otherwise.  When the store takes the
\* insert, that conversation is in the store and every write of the turn is
\* under it, whatever conversation is active by then; when the store turns
\* it down no conversation is created, the send ends with a notice and
\* writes nothing.  With a conversation active at the start every write is
\* under that one.
C9_EnsureConversation ==
  \A s \in SendIds :
    sends[s].pc \notin {"idle", "ensureConversation"} =>
      /\ Cardinality(Issued(s, {"insertConversation"})) = IF sends[s].activeId = 0 THEN 1 ELSE 0
      /\ Taken(s, {"insertConversation"}) # {} =>
           /\ sends[s].created = TurnConversation(s)
           /\ HasConversation(sends[s].created)
      /\ Issued(s, {"insertConversation"}) # {} /\ Taken(s, {"insertConversation"}) = {} =>
           /\ sends[s].pc = "done" /\ sends[s].alerted
           /\ Issued(s, Writes) = {}
      /\ TurnConversation(s) # 0 => UnderOneConversation(s)
      /\ \A k \in Taken(s, {"insertUser", "insertAssistant"}) :
           \E m \in 1..Len(dbMessages) :
             dbMessages[m].conversation_id = TurnConversation(s)

\* a send that created its conversation is over, all its writes made, and
\* another conversation is active
C9_Witness ==
  \E s \in SendIds :
    /\ sends[s].pc = "done"
    /\ sends[s].activeId = 0
    /\ Taken(s, {"insertConversation"}) # {}
    /\ Cardinality(Taken(s, Writes)) = 3
    /\ activeId # sends[s].created

\* C10. Title-setting is idempotent: the title of a conversation in the
\* store, once it is not null, is the same after every step.
C10_TitleIdempotent ==
  [][\A c \in 1..(nextConvId - 1) :
       StoredTitle(c) # NoTitle => StoredTitle(c)' = StoredTitle(c)]_vars

\* the rows of the store, or of the list, that carry the reply of send s
AssistantRows(rows, s) ==
  {k \in 1..Len(rows) :
     /\ rows[k].conversation_id = sends[s].conversationId
     /\ rows[k].role = "assistant"
     /\ rows[k].id > 0}

\* C11. A text turn that starts with no conversation active, in a session
\* whose store was empty and where no call fails and nothing is clicked or
\* attached: the conversation is created, the user message is stored under
\* it, the title is the text, the gateway is asked with the one user
\* message, and when the gateway gave a text and the send is over an
\* assistant message is in the store and in the list on the screen,
\* wherever the load of the new conversation's messages falls.
C11_EndToEnd ==
  \A s \in SendIds :
    (/\ sends[s].activeId = 0
     /\ sends[s].created = 1
     /\ faults = 0 /\ clicks = 0 /\ picks = 0) =>
      /\ HasConversation(1)
      /\ sends[s].pc \in {"reveal", "insertAssistant"} =>
           /\ sends[s].request = <<[role |-> "user", content |-> Trim(Typed[s])]>>
           /\ StoredTitle(1) = Trim(Typed[s])
           /\ \E k \in 1..Len(dbMessages) :
                /\ dbMessages[k].conversation_id = 1
                /\ dbMessages[k].role = "user"
                /\ dbMessages[k].content = Trim(Typed[s])
      /\ (sends[s].pc = "done" /\ Issued(s, {"insertAssistant"}) # {}) =>
           /\ AssistantRows(dbMessages, s) # {}
           /\ AssistantRows(messages, s) # {}

\* the places of the list that hold the placeholder of send s
Placeholders(s) == {k \in 1..Len(messages) : messages[k].id = TempId(s)}

\* C12. The list on the screen never holds two entries for one reply: no
\* two entries have one id, the placeholder of a send is there at most
\* once, and never once the store has taken the reply's row.  The step on
\* which the store takes the row puts that row where the placeholder was
\* and leaves every other entry, and the length of the list, as it was.
C12_PlaceholderSubstitution ==
  /\ [](\A s \in SendIds :
          /\ Cardinality(Placeholders(s)) <= 1
          /\ Placeholders(s) # {} => Taken(s, {"insertAssistant"}) = {}
          /\ Cardinality(AssistantRows(messages, s)) <= Cardinality(AssistantRows(dbMessages, s)))
  /\ [](\A j, k \in 1..Len(messages) : messages[j].id = messages[k].id => j = k)
  /\ [][\A s \in SendIds :
          (sends[s].pc = "insertAssistant" /\ Len(dbMessages') > Len(dbMessages)) =>
            /\ Len(messages') = Len(messages)
            /\ \A k \in 1..Len(messages) :
                 messages'[k] = IF k \in Placeholders(s)
                                  THEN [dbMessages'[Len(dbMessages')]
                                          EXCEPT !.content = sends[s].assistantText]
                                  ELSE messages[k]]_vars

\* the row of a reply stands in the list where its placeholder stood, after
\* the user message, while the load of the new conversation is still out
C12_Witness ==
  \E s \in SendIds :
    /\ sends[s].pc = "done" /\ sends[s].created = 1 /\ clicks = 0
    /\ BagIn(1, loads)
    /\ Len(messages) = 2
    /\ AssistantRows(messages, s) = {2}

\* C13. A send whose insert of the user message the store turned down
\* makes that insert once only, never calls the gateway, and is over with
\* the notice shown.
C13_UserInsertFailure ==
  \A s \in SendIds :
    Issued(s, {"insertUser"}) # Taken(s, {"insertUser"}) =>
      /\ Cardinality(Issued(s, {"insertUser"})) = 1
      /\ Issued(s, {"invoke"}) = {}
      /\ sends[s].pc = "done" => sends[s].alerted

\* the gateway call of send s came back with an error
GatewayFailed(s) == Issued(s, {"invoke"}) # Taken(s, {"invoke"})

\* the user message of send s is in these rows
UserRows(rows, s) ==
  {k \in 1..Len(rows) :
     /\ rows[k].conversation_id = sends[s].conversationId
     /\ rows[k].role = "user"
     /\ rows[k].content = sends[s].content}

\* C14. A send whose user message the store took and whose gateway call
\* came back with an error is over with the notice shown, has made no
\* placeholder and sent no assistant insert; and the step on which the
\* error comes back leaves the list on the screen and the stored messages
\* as they were, the user message with them.
C14_GatewayFailure ==
  /\ [](\A s \in SendIds :
          (Taken(s, {"insertUser"}) # {} /\ GatewayFailed(s)) =>
            /\ sends[s].pc = "done" /\ sends[s].alerted
            /\ Issued(s, {"insertAssistant"}) = {}
            /\ Placeholders(s) = {})
  /\ [][\A s \in SendIds :
          (Taken(s, {"insertUser"}) # {} /\ ~GatewayFailed(s) /\ GatewayFailed(s)') =>
            /\ UserRows(dbMessages, s) # {}
            /\ messages' = messages
            /\ dbMessages' = dbMessages
            /\ ~sending']_vars

\* the gateway call of a send has failed, the notice is shown and the user
\* message is the last of the list and of the store
C14_Witness ==
  \E s \in SendIds :
    /\ sends[s].pc = "done" /\ sends[s].alerted
    /\ Taken(s, {"insertUser"}) # {} /\ GatewayFailed(s)
    /\ messages # <<>> /\ dbMessages # <<>>
    /\ messages[Len(messages)] = dbMessages[Len(dbMessages)]
    /\ messages[Len(messages)].role = "user"
    /\ messages[Len(messages)].conversation_id = sends[s].conversationId

\* a delete is answered on this step, and the answer is a failure
DeleteFailed ==
  /\ BagCardinality(deletions') < BagCardinality(deletions)
  /\ faults' = faults + 1

\* C15. The step on which a delete fails, by an error in the result or by
\* a thrown one, leaves the conversation list, the active conversation and
\* the message list as they were.
C15_FailedDelete ==
  [][DeleteFailed =>
       /\ conversations' = conversations
       /\ activeId' = activeId
       /\ messages' = messages
       /\ dbConversations' = dbConversations
       /\ dbMessages' = dbMessages]_vars

\* the conversations a delete takes out of the store on this step
Deleted ==
  {c \in 1..(nextConvId - 1) : HasConversation(c) /\ ~HasConversation(c)'}

\* of the conversations of a list, the one of the latest activity, 0 when
\* the list is empty: the store keeps its conversations latest first
MostRecent(list, stored) ==
  LET listed == SelectSeq(stored, LAMBDA r : \E k \in 1..Len(list) : list[k].id = r.id)
  IN IF listed = <<>> THEN 0 ELSE listed[1].id

\* C16. The step on which the store's answer to a successful delete comes
\* back, the list and the active conversation being as the handler saw them
\* at the click: if the deleted conversation was the active one, the
\* conversation of the latest activity among those left in the list becomes
\* active, or none when none is left; if it was another, the active
\* conversation stays.
C16_DeleteFallback ==
  [][\A c \in Deleted : \A d \in BagToSet(deletions) :
       (d.id = c /\ d.activeId = activeId /\ d.conversations = conversations) =>
         activeId' = IF activeId = c
                       THEN MostRecent(conversations', dbConversations')
                       ELSE activeId]_vars

\* C17. The pending attachments are never more than 5, and none of them is
\* larger than 10 MiB.
C17_AttachmentLimits ==
  /\ Len(attachments) <= MaxCount
  /\ \A k \in 1..Len(attachments) : attachments[k].size <= MaxBytes

\* the names of files, or of attachments, in their order
Names(fs) == [k \in 1..Len(fs) |-> fs[k].name]

\* C18. A handleFiles call with count attachments pending and a selection
\* of n files takes the first max(0, 5 - count) files of the selection in
\* their order and leaves the rest, with the notice on the count exactly
\* when n is larger than that; of the files it takes, each one over 10 MiB
\* is skipped with a notice of its own and all the others become
\* attachments, in their order.
C18_BatchAcceptance ==
  \A e \in BagToSet(fileReads) :
    LET room == IF 5 - e.count > 0 THEN 5 - e.count ELSE 0
        first == SubSeq(e.files, 1, IF Len(e.files) < room THEN Len(e.files) ELSE room)
    IN /\ e.tooMany <=> Len(e.files) > room
       /\ e.skipped = Names(SelectSeq(first, LAMBDA f : f.size > 10 * 1024 * 1024))
       /\ Names(e.next) = Names(SelectSeq(first, LAMBDA f : f.size <= 10 * 1024 * 1024))

\* with three attachments pending, a selection of four files is under way:
\* two are taken, one of them is skipped for its size, one is attached
C18_Witness ==
  \E e \in BagToSet(fileReads) :
    /\ e.count = 3 /\ Len(attachments) = 3
    /\ Len(e.files) = 4
    /\ e.tooMany
    /\ Len(e.skipped) = 1
    /\ Len(e.next) = 1

\* t is text with the blanks at its two ends taken off
TrimOf(t, text) ==
  \E a, b \in 0..Len(text) :
    /\ a + Len(t) + b = Len(text)
    /\ t = SubSeq(text, a + 1, a + Len(t))
    /\ \A k \in 1..a : text[k] = " "
    /\ \A k \in (Len(text) - b + 1)..Len(text) : text[k] = " "
    /\ t # <<>> => t[1] # " " /\ t[Len(t)] # " "

\* C19. A send that starts with no attachment pending and with text left
\* once the blanks at the ends of the input are off takes that text as its
\* content, keeps it while it runs, and the user message the store takes
\* from it has exactly that content.
C19_TextContent ==
  [][\A s \in SendIds :
       /\ (sends[s].pc = "idle" /\ sends'[s].pc # "idle" /\ attachments = <<>>) =>
            /\ sends'[s].content # <<>>
            /\ TrimOf(sends'[s].content, input)
            /\ sends'[s].atts = <<>>
       /\ (sends[s].pc \notin {"idle", "done"} /\ sends'[s].pc # "done") =>
            sends'[s].content = sends[s].content
       /\ (sends[s].atts = <<>> /\ Taken(s, {"insertUser"}) = {}
             /\ Taken(s, {"insertUser"})' # {}) =>
            /\ Len(dbMessages') = Len(dbMessages) + 1
            /\ dbMessages'[Len(dbMessages')].role = "user"
            /\ dbMessages'[Len(dbMessages')].conversation_id = sends[s].conversationId
            /\ dbMessages'[Len(dbMessages')].content = sends[s].content]_vars

\* the input " B " was sent with no attachment, and the user message "B"
\* is the last of the store
C19_Witness ==
  /\ picks = 0
  /\ sends[2].pc \in {"updateTitle", "invoke"}
  /\ Taken(2, {"insertUser"}) # {}
  /\ dbMessages[Len(dbMessages)].role = "user"
  /\ dbMessages[Len(dbMessages)].content = <<"B">>
  /\ Typed[2] = <<" ", "B", " ">>

\* the names of attachments one after the other, ', ' between two of them
RECURSIVE Listed(_)
Listed(atts) ==
  IF Len(atts) = 0 THEN <<>>
  ELSE IF Len(atts) = 1 THEN atts[1].name
  ELSE Listed(SubSeq(atts, 1, Len(atts) - 1)) \o <<", ">> \o atts[Len(atts)].name

\* C20. A send that starts with attachments pending and an input of blanks
\* only takes as its content 'Attached files: ' and the names of the
\* pending attachments in their order, ', ' between them; it keeps its
\* content and its attachments while it runs, and the user message the
\* store takes from it, with or without the attachments column, has exactly
\* that content.
C20_AttachedFilesContent ==
  [][\A s \in SendIds :
       /\ (sends[s].pc = "idle" /\ sends'[s].pc # "idle" /\ attachments # <<>>
             /\ TrimOf(<<>>, input)) =>
            /\ sends'[s].content = <<"Attached files: ">> \o Listed(attachments)
            /\ sends'[s].atts = attachments
       /\ (sends[s].pc \notin {"idle", "done"} /\ sends'[s].pc # "done") =>
            /\ sends'[s].content = sends[s].content
            /\ sends'[s].atts = sends[s].atts
       /\ (sends[s].atts # <<>> /\ Taken(s, {"insertUser"}) = {}
             /\ Taken(s, {"insertUser"})' # {}) =>
            /\ Len(dbMessages') = Len(dbMessages) + 1
            /\ dbMessages'[Len(dbMessages')].role = "user"
            /\ dbMessages'[Len(dbMessages')].conversation_id = sends[s].conversationId
            /\ dbMessages'[Len(dbMessages')].content = sends[s].content]_vars

\* three files were attached and sent with no text, the store turned the
\* insert with the attachments column down, and the user message of the
\* second insert is in the store with the three names
C20_Witness ==
  \E s \in SendIds :
    /\ Cardinality(Issued(s, {"insertUser"})) = 2
    /\ Taken(s, {"insertUser"}) # {}
    /\ dbMessages # <<>>
    /\ dbMessages[Len(dbMessages)].role = "user"
    /\ dbMessages[Len(dbMessages)].content =
         <<"Attached files: ", "n", ".txt", ", ", "i", ".png", ", ", "o", ".bin">>

\* role and content of rows, in their order
Plain(rows) == [k \in 1..Len(rows) |-> [role |-> rows[k].role, content |-> rows[k].content]]

\* the messages the store holds for the conversation of send s from before
\* its turn: all of them but the user message of the turn, once taken
PriorMessages(s) ==
  LET rows == MessagesOf(sends[s].conversationId)
  IN IF Taken(s, {"insertUser"}) # {} THEN SubSeq(rows, 1, Len(rows) - 1) ELSE rows

\* the attachments that go to the image unit
ImageParts(atts) ==
  SelectSeq(atts, LAMBDA a : a.textContent = <<>> /\ a.dataUrl # <<>>
                             /\ a.type # <<>> /\ a.type[1] = "image/")

\* C21. The message list a send has given the gateway is the prior
\* messages of its conversation, role and content as stored and in their
\* order, then one user unit for the turn (the content itself when nothing
\* is attached, a combined text that starts with it otherwise), then, only
\* when images are attached, one unit of image parts, in attachment order.
C21_RequestOrder ==
  \A s \in SendIds :
    sends[s].pc \in {"reveal", "insertAssistant"} =>
      LET request == sends[s].request
          prior == Plain(PriorMessages(s))
          units == SubSeq(request, Len(prior) + 1, Len(request))
          images == ImageParts(sends[s].atts)
      IN /\ Len(request) > Len(prior)
         /\ SubSeq(request, 1, Len(prior)) = prior
         /\ Len(units) = IF images = <<>> THEN 1 ELSE 2
         /\ units[1].role = "user"
         /\ IF sends[s].atts = <<>>
              THEN units[1].content = sends[s].content
              ELSE SubSeq(units[1].content, 1, Len(sends[s].content)) = sends[s].content
         /\ images # <<>> =>
              /\ units[2].role = "user"
              /\ units[2].content = [k \in 1..Len(images) |->
                                       [type |-> "image_url", url |-> images[k].dataUrl]]

\* the combined text unit of the request of send s
CombinedUnit(s) == sends[s].request[Len(sends[s].renderedMessages) + 1].content

\* the attachments of a list that have extracted text
WithText(atts) == SelectSeq(atts, LAMBDA a : a.textContent # <<>>)

\* '--- File: <name> ---', a newline, and the text up to 20000 characters
SectionOf(a) ==
  <<"--- File: ">> \o a.name \o <<" ---", "\n">>
  \o SubSeq(Chars(a.textContent), 1,
            IF Len(Chars(a.textContent)) < 20000 THEN Len(Chars(a.textContent)) ELSE 20000)

\* the section of attachment a stands in text from place p on, and ends
\* there: the text is over after it, or goes on with an empty line
SectionAt(text, p, a) ==
  /\ SubSeq(text, p, p + Len(SectionOf(a)) - 1) = SectionOf(a)
  /\ p + Len(SectionOf(a)) <= Len(text) => text[p + Len(SectionOf(a))] = "\n\n"

\* C22. In the request of a send with attachments, the combined text unit
\* holds for every attachment with extracted text its section, '--- File:
\* <name> ---', a newline and the first min(length, 20000) characters of
\* the text and no more, and these sections stand in attachment order.
C22_TextSections ==
  \A s \in SendIds :
    (sends[s].pc \in {"reveal", "insertAssistant"} /\ sends[s].atts # <<>>) =>
      LET combined == CombinedUnit(s)
          marks == {k \in 1..Len(combined) : combined[k] = "--- File: "}
          texts == WithText(sends[s].atts)
      IN \E at \in [1..Len(texts) -> marks] :
           /\ \A i, j \in 1..Len(texts) : i < j => at[i] < at[j]
           /\ \A i \in 1..Len(texts) : SectionAt(combined, at[i], texts[i])

\* note.txt with the text 'abc', an image and a text of 20001 characters
\* are sent with no text typed: the combined unit holds
\* '--- File: note.txt ---\nabc', and the long text cut after 20000
C22_Witness ==
  \E s \in SendIds :
    /\ sends[s].pc = "reveal"
    /\ Len(sends[s].atts) = 3
    /\ Len(Chars(sends[s].atts[3].textContent)) = 20001
    /\ sends[s].content = <<"Attached files: ", "note", ".txt", ", ", "i", ".png", ", ", "l", ".txt">>
    /\ \E p \in 1..Len(CombinedUnit(s)) :
         SubSeq(CombinedUnit(s), p, p + 7) =
           <<"--- File: ", "note", ".txt", " ---", "\n", "a", "b", "c">>
    /\ CombinedUnit(s)[Len(CombinedUnit(s))] = "y"

\* the step of the reveal of a text of length n, and the number of steps
\* it may take: max(1, floor(n / 120)) and ceil(n / step)
StepOf(n) == IF n \div 120 >= 1 THEN n \div 120 ELSE 1
StepsOf(n) == (n + StepOf(n) - 1) \div StepOf(n)

\* C23. Every tick of the reveal of a reply of length L >= 1 shows, where
\* the placeholder is in the list, a prefix of the reply strictly longer
\* than the one before; the ticks made so far are never more than
\* ceil(L / max(1, floor(L / 120))); the tick that ends the reveal shows the
\* whole reply; and a reveal that has begun ends, the send going on to the
\* insert of the assistant message.
C23_Reveal ==
  /\ [](\A s \in SendIds :
          LET total == Len(sends[s].assistantText)
          IN /\ sends[s].pc = "reveal" =>
                  /\ total >= 1
                  /\ sends[s].i < total
                  /\ sends[s].i % StepOf(total) = 0
                  /\ sends[s].i \div StepOf(total) < StepsOf(total)
             /\ sends[s].pc = "insertAssistant" => sends[s].i = total)
  /\ [][\A s \in SendIds :
          (sends[s].pc = "reveal" /\ sends'[s] # sends[s]) =>
            /\ sends'[s].i > sends[s].i
            /\ sends'[s].i - sends[s].i <= StepOf(Len(sends[s].assistantText))
            /\ sends'[s].pc = "insertAssistant" \/ 
                 sends'[s].i - sends[s].i = StepOf(Len(sends[s].assistantText))
            /\ \A k \in Placeholders(s) :
                 /\ messages'[k].content = SubSeq(sends[s].assistantText, 1, sends'[s].i)
                 /\ Len(messages'[k].content) > Len(messages[k].content)
                 /\ sends'[s].pc = "insertAssistant" =>
                      messages'[k].content = sends[s].assistantText]_vars
  /\ \A s \in SendIds : (sends[s].pc = "reveal") ~> (sends[s].pc = "insertAssistant")

\* the reveal of a reply of 361 characters is at its last tick but one,
\* 360 characters shown by steps of 3
C23_Witness ==
  \E s \in SendIds :
    /\ sends[s].pc = "reveal"
    /\ Len(sends[s].assistantText) = 361
    /\ sends[s].i = 360
    /\ \E k \in Placeholders(s) : Len(messages[k].content) = 360

\* the texts the gateway may reply with, and the assistant texts of the
\* store at the start of a session
ReplyTexts == {res.content : res \in {r \in limits.replies : ~r.error}}
EarlierTexts ==
  UNION {{earlier.messages[k].content : k \in 1..Len(earlier.messages)} :
           earlier \in InitialStores}

\* C24. The assistant message the store holds is the whole reply of the
\* gateway: the text a send reveals and persists is a reply of the gateway,
\* every assistant message that enters the store is, whole, the text of
\* the send that has just finished its reveal, and no assistant message of
\* the store is a text other than a whole reply.
C24_PersistedWhole ==
  /\ [](\A s \in SendIds :
          sends[s].pc \in {"reveal", "insertAssistant"} => sends[s].assistantText \in ReplyTexts)
  /\ [](\A k \in 1..Len(dbMessages) :
          dbMessages[k].role = "assistant" =>
            dbMessages[k].content \in ReplyTexts \cup EarlierTexts)
  /\ [][\A k \in 1..Len(dbMessages') :
          (k > Len(dbMessages) /\ dbMessages'[k].role = "assistant") =>
            \E s \in SendIds :
              /\ sends[s].pc = "insertAssistant"
              /\ sends[s].i = Len(sends[s].assistantText)
              /\ dbMessages'[k].content = sends[s].assistantText
              /\ dbMessages'[k].conversation_id = sends[s].conversationId]_vars

\* the store holds the reply of 361 characters, revealed in 121 ticks
C24_Witness ==
  \E k \in 1..Len(dbMessages) :
    /\ dbMessages[k].role = "assistant"
    /\ Len(dbMessages[k].content) = 361
    /\ dbMessages[k].content \in ReplyTexts

\* the whole local days between the day of the clock and the day of the
\* last activity, and the label of such a difference
DaysApart == DayOf(grouping.zone, grouping.now) - DayOf(grouping.zone, grouping.at)
LabelOf(d) ==
  IF d = 0 THEN <<"Today">>
  ELSE IF d = 1 THEN <<"Yesterday">>
  ELSE IF d \in 2..6 THEN <<ToString(d), " days ago">>
  ELSE IF d \in 7..13 THEN <<"Last week">>
  ELSE IF d \in 14..20 THEN <<"2 weeks ago">>
  ELSE IF d \in 21..27 THEN <<"3 weeks ago">>
  ELSE <<MonthOf(DayOf(grouping.zone, grouping.at)).name, " ",
         ToString(MonthOf(DayOf(grouping.zone, grouping.at)).year)>>

\* the hours from the last activity to the local midnight of today
HoursBefore == StartOf(grouping.zone, DayOf(grouping.zone, grouping.now)) - grouping.at

\* C25 as stated. The label follows the whole local days d between today
\* and the last activity, and a last activity at the local midnight of
\* today is labelled 'Today', one 24 hours earlier 'Yesterday', one 10 days
\* earlier 'Last week', one 40 days earlier by its month and year.
C25_AsStated ==
  (grouping.label # <<>> /\ DaysApart >= 0) =>
    /\ grouping.label = LabelOf(DaysApart)
    /\ HoursBefore = 0 => grouping.label = <<"Today">>
    /\ HoursBefore = 24 => grouping.label = <<"Yesterday">>
    /\ HoursBefore = 240 => grouping.label = <<"Last week">>
    /\ HoursBefore = 960 =>
         grouping.label = <<MonthOf(DayOf(grouping.zone, grouping.at)).name, " ",
                            ToString(MonthOf(DayOf(grouping.zone, grouping.at)).year)>>

\* C25. The label follows the whole local days d between today and the
\* last activity: 'Today' for 0, 'Yesterday' for 1, '<d> days ago' for 2
\* to 6, 'Last week' for 7 to 13, '2 weeks ago' for 14 to 20, '3 weeks ago'
\* for 21 to 27, the month and year of the last activity from 28 on.  A
\* last activity at the local midnight of today is labelled 'Today', one
\* 10 days of 24 hours earlier 'Last week', one 40 days of 24 hours earlier
\* by its month and year; one 24 hours earlier is labelled 'Yesterday'
\* when yesterday had no fewer than 24 hours, so that the instant is not
\* before the local midnight of yesterday.
C25_RelativeGroup ==
  (grouping.label # <<>> /\ DaysApart >= 0) =>
    /\ grouping.label = LabelOf(DaysApart)
    /\ HoursBefore = 0 => grouping.label = <<"Today">>
    /\ (HoursBefore = 24 /\ StartOf(grouping.zone, DayOf(grouping.zone, grouping.now) - 1)
                               <= grouping.at) =>
         grouping.label = <<"Yesterday">>
    /\ HoursBefore = 240 => grouping.label = <<"Last week">>
    /\ HoursBefore = 960 =>
         grouping.label = <<MonthOf(DayOf(grouping.zone, grouping.at)).name, " ",
                            ToString(MonthOf(DayOf(grouping.zone, grouping.at)).year)>>

\* a conversation last active 40 days of 24 hours before the midnight of
\* 17 January 2026 is grouped under December 2025
C25_Witness ==
  /\ grouping.label = <<"December", " ", "2025">>
  /\ HoursBefore = 960
  /\ DayOf(grouping.zone, grouping.now) = 48

\* the rules of the classification, by the media type and the last piece
\* of the name of a file
IsImage(f) == f.type # <<>> /\ f.type[1] = "image/"
IsText(f) ==
  \/ f.type # <<>> /\ f.type[1] = "text/"
  \/ f.type \in {<<"application/", "json">>, <<"application/", "xml">>, <<"application/", "csv">>}
  \/ f.name[Len(f.name)] \in {".txt", ".md", ".json", ".csv"}
IsPdf(f) == f.type = <<"application/", "pdf">> \/ f.name[Len(f.name)] \in {".pdf", ".PDF"}
IsDocx(f) == f.type = DocxType \/ f.name[Len(f.name)] \in {".docx", ".DOCX"}

\* the files of a handleFiles call that become attachments: the first
\* max(0, 5 - count) of the selection that are not over 10 MiB
Kept(e) ==
  LET room == IF 5 - e.count > 0 THEN 5 - e.count ELSE 0
      first == SubSeq(e.files, 1, IF Len(e.files) < room THEN Len(e.files) ELSE room)
  IN SelectSeq(first, LAMBDA f : f.size <= 10 * 1024 * 1024)

\* the attachment a is what the one strategy of the file f gives
Classified(f, a) ==
  IF IsImage(f)
    THEN a.dataUrl = f.url /\ TrimOf(a.textContent, f.ocr)
  ELSE IF IsText(f)
    THEN a.dataUrl = <<>> /\ a.textContent = f.text
  ELSE IF IsPdf(f)
    THEN a.dataUrl = <<>> /\ TrimOf(a.textContent, f.pdf)
  ELSE IF IsDocx(f)
    THEN a.dataUrl = <<>> /\ TrimOf(a.textContent, f.docx)
  ELSE a.dataUrl = <<>> /\ a.textContent = <<>> /\ a.name = f.name /\ a.size = f.size

\* C26. Of a file that can be read, the attachment is what the first of
\* the rules image, plain text, PDF, DOCX that the file matches gives, and
\* nothing of what another strategy would give: the data URL and the
\* recognized text of an image whatever its extension, the raw text of a
\* file of the text family even if it matches the PDF or the DOCX rule, the
\* extracted text of a PDF, of a DOCX; a file that matches no rule is kept
\* with its name and size and with no text.
C26_Classification ==
  \A e \in BagToSet(fileReads) :
    /\ Len(e.next) = Len(Kept(e))
    /\ \A k \in 1..Len(e.next) : Kept(e)[k].readable => Classified(Kept(e)[k], e.next[k])

\* m.md, of the PDF media type, is attached with its raw text; s.pdf, an
\* image by its media type, with its data URL and its recognized text
C26_Witness ==
  \E j, k \in 1..Len(attachments) :
    /\ attachments[j].name = <<"m", ".md">>
    /\ attachments[j].type = <<"application/", "pdf">>
    /\ attachments[j].textContent = <<" ", "R">>
    /\ attachments[k].name = <<"s", ".pdf">>
    /\ attachments[k].dataUrl = <<"data:", "s">>
    /\ attachments[k].textContent = <<"O">>

\* the file cannot be read, or its extractor fails on it
Failed(f) ==
  \/ ~f.readable
  \/ IsImage(f) /\ f.ocr = <<>>
  \/ ~IsImage(f) /\ ~IsText(f) /\ IsPdf(f) /\ f.pdf = <<>>
  \/ ~IsImage(f) /\ ~IsText(f) /\ ~IsPdf(f) /\ IsDocx(f) /\ f.docx = <<>>

\* C27. When the reads of a handleFiles call are over, the pending list
\* grows by exactly one attachment for each file the call accepted that is
\* not over 10 MiB, in their order, each with the name, the media type and
\* the size of its file; the attachment of a file that could not be read
\* or whose extraction failed has no text, and the attachments of the
\* other files of the batch are what their strategies give.
C27_FailureIsolation ==
  [][\A e \in BagToSet(fileReads) :
       (fileReads' = fileReads (-) SetToBag({e}) /\ fileReads' # fileReads) =>
         /\ Len(attachments') = Len(attachments) + Len(Kept(e))
         /\ SubSeq(attachments', 1, Len(attachments)) = attachments
         /\ \A k \in 1..Len(Kept(e)) :
              LET f == Kept(e)[k]
                  a == attachments'[Len(attachments) + k]
              IN /\ a.name = f.name /\ a.size = f.size
                 /\ a.type = (IF f.type = <<>> THEN <<"application/", "octet-stream">> ELSE f.type)
                 /\ Failed(f) => a.textContent = <<>>
                 /\ ~f.readable => a.dataUrl = <<>>
                 /\ f.readable => Classified(f, a)]_vars

\* of a batch of five files, the first fails in its extractor, the second
\* cannot be read, the fourth is over 10 MiB: four attachments are
\* pending, the first two without text, the third with its text
C27_Witness ==
  /\ Names(attachments) = <<BadPdf.name, LostImage.name, WordFile.name, ZipFile.name>>
  /\ attachments[1].textContent = <<>>
  /\ attachments[2].textContent = <<>> /\ attachments[2].dataUrl = <<>>
  /\ attachments[3].textContent = <<"D">>
  /\ fileReads = EmptyBag

\* the input is empty once the blanks at its ends are off
Blank(text) == \A k \in 1..Len(text) : text[k] = " "

\* C28. While the input is blank and no attachment is pending, no send
\* starts, and a send asked for is turned away with nothing done: no call
\* goes to the store or to the gateway, no conversation is created, and
\* the sending flag, the input, the messages, the conversations, the active
\* conversation and the attachments are as they were.
C28_EmptySend ==
  [][(Blank(input) /\ attachments = <<>>) =>
       /\ \A s \in SendIds : sends[s].pc = "idle" => sends'[s] = sends[s]
       /\ Len(ignored') > Len(ignored) =>
            /\ ignored'[Len(ignored')].empty
            /\ UNCHANGED <<sending, input, messages, conversations, activeId, attachments>>
            /\ UNCHANGED <<sends, loads, listLoad, fileReads>>
            /\ UNCHANGED <<dbConversations, dbMessages, nextConvId, nextMsgId>>]_vars

\* no send is under way, a blank is in the input, no attachment is
\* pending, and a send has just been asked for and turned away
C28_Witness ==
  /\ input = <<" ">>
  /\ attachments = <<>>
  /\ ~sending
  /\ ignored # <<>> /\ ignored[Len(ignored)].empty /\ ~ignored[Len(ignored)].sending
  /\ \A s \in SendIds : sends[s].pc = "idle"

\* the entries of the list on the screen that show the user message of a
\* send
UserEntries(msgs, s) ==
  {k \in 1..Len(msgs) : msgs[k].role = "user" /\ msgs[k].content = sends[s].content}

\* C29. While the insert of the user message of a send is with the store,
\* the list on the screen already shows the message; and the step on which
\* the store gives the row puts the row where that entry was, the list as
\* long as before.
C29_OptimisticInsert ==
  /\ [](\A s \in SendIds : sends[s].pc = "insertUser" => UserEntries(messages, s) # {})
  /\ [][\A s \in SendIds :
          (sends[s].pc = "insertUser" /\ sends'[s].insertedUser) =>
            /\ Len(messages') = Len(messages)
            /\ \E k \in UserEntries(messages, s) :
                 messages'[k].id > 0 /\ messages'[k].content = sends[s].content]_vars

\* the insert of the assistant message of a send came back without a row
AssistantInsertFailed(rec) ==
  /\ rec.calls # <<>>
  /\ rec.calls[Len(rec.calls)].op = "insertAssistant"
  /\ ~rec.calls[Len(rec.calls)].ok

\* C30. A send asks for the insert of its assistant message once at most.
\* While the insert is with the store, the placeholder, where the list on
\* the screen has it, holds the whole reply; and the step on which the
\* insert comes back without a row leaves the list as it was, the
\* placeholder with the whole reply in it and there once, leaves the store
\* as it was, and ends the send.
C30_AssistantInsertFailure ==
  /\ [](\A s \in SendIds : Cardinality(Issued(s, {"insertAssistant"})) <= 1)
  /\ [](\A s \in SendIds :
          sends[s].pc = "insertAssistant" =>
            /\ Cardinality(Placeholders(s)) <= 1
            /\ \A k \in Placeholders(s) : messages[k].content = sends[s].assistantText)
  /\ [][\A s \in SendIds :
          (sends[s].pc = "insertAssistant" /\ AssistantInsertFailed(sends'[s])) =>
            /\ messages' = messages
            /\ dbMessages' = dbMessages
            /\ sends'[s].pc = "done"
            /\ \A k \in Placeholders(s) :
                 /\ messages'[k].id = TempId(s)
                 /\ messages'[k].content = sends[s].assistantText]_vars

\* a send is over, its assistant insert failed, and its placeholder is on
\* the screen with the reply 'Hi'
C30_Witness ==
  \E s \in SendIds :
    /\ sends[s].pc = "done"
    /\ AssistantInsertFailed(sends[s])
    /\ \E k \in Placeholders(s) : messages[k].content = <<"H", "i">>

\* the title of a conversation among rows of the store
TitleIn(convs, c) ==
  LET ks == {k \in 1..Len(convs) : convs[k].id = c}
  IN IF ks = {} THEN <<>> ELSE convs[CHOOSE k \in ks : TRUE].title

\* the title update of a send came back done
TitleSet(rec) ==
  /\ rec.calls # <<>>
  /\ rec.calls[Len(rec.calls)].op = "updateTitle"
  /\ rec.calls[Len(rec.calls)].ok

\* C31. On the step on which the title update of a send is done, the title
\* of its conversation becomes the content of the send when the content has
\* at most 60 characters, and otherwise a text of at most 60 characters, a
\* prefix of the content with the ellipsis after it; and the user message
\* the send has stored has that content.
C31_TitleDerivation ==
  [][\A s \in SendIds :
       (sends[s].pc = "updateTitle" /\ TitleSet(sends'[s])) =>
         LET content == sends[s].content
             title == TitleIn(dbConversations', sends[s].conversationId)
         IN /\ Len(content) <= 60 => title = content
            /\ Len(content) > 60 =>
                 /\ Len(title) <= 60
                 /\ title[Len(title)] = "..."
                 /\ SubSeq(title, 1, Len(title) - 1) = SubSeq(content, 1, Len(title) - 1)
            /\ sends[s].insertedUser =>
                 \E k \in 1..Len(dbMessages) :
                   /\ dbMessages[k].conversation_id = sends[s].conversationId
                   /\ dbMessages[k].role = "user"
                   /\ dbMessages[k].content = content]_vars

\* a text of 100 characters was sent: its message is in the store and the
\* title of its conversation is its first 57 characters and the ellipsis
C31_Witness ==
  \E k \in 1..Len(dbMessages) :
    /\ Len(dbMessages[k].content) = 100
    /\ dbMessages[k].role = "user"
    /\ Len(TitleIn(dbConversations, dbMessages[k].conversation_id)) = 58
    /\ TitleIn(dbConversations, dbMessages[k].conversation_id)[58] = "..."

\* the items of groups, one group after the other
RECURSIVE ItemsOf(_)
ItemsOf(groups) == IF groups = <<>> THEN <<>> ELSE Head(groups).items \o ItemsOf(Tail(groups))

\* C32. The items of the groups of the sidebar, one group after the other,
\* are the list that was grouped, in its order; no group is empty; and
\* every item of a group has the label of the group.
C32_GroupingOrder ==
  grouping.grouped =>
    /\ ItemsOf(grouping.groups) = grouping.list
    /\ \A g \in 1..Len(grouping.groups) :
         /\ grouping.groups[g].items # <<>>
         /\ \A k \in 1..Len(grouping.groups[g].items) :
              FormatRelativeGroup(grouping.zone, grouping.now, grouping.groups[g].items[k].at)
                = grouping.groups[g].label

\* a list of a conversation of today, one of yesterday and another of
\* today is grouped: three groups, the first and the last labelled alike
C32_Witness ==
  /\ grouping.grouped
  /\ Len(grouping.list) = 3
  /\ Len(grouping.groups) = 3
  /\ grouping.groups[1].label = <<"Today">>
  /\ grouping.groups[2].label = <<"Yesterday">>
  /\ grouping.groups[3].label = <<"Today">>

\* C33. When the reads of a handleFiles call are over, the attachments
\* that were pending keep their places at the head of the pending list,
\* and the attachments of the call follow them in the order in which their
\* files were selected.
C33_AttachmentOrder ==
  [][\A e \in BagToSet(fileReads) :
       (fileReads' = fileReads (-) SetToBag({e}) /\ fileReads' # fileReads) =>
         Names(attachments') = Names(attachments) \o Names(Kept(e))]_vars

\* c.csv was pending when a batch of five files was selected, of which
\* the first three are attached after it in their order
C33_Witness ==
  /\ Names(attachments) = <<CsvFile.name, BadPdf.name, LostImage.name, WordFile.name>>
  /\ fileReads = EmptyBag

\* C34. Every entry of the list on the screen is of the active
\* conversation, and the list is empty when no conversation is active.
C34_MessagesOfActive ==
  /\ \A k \in 1..Len(messages) : messages[k].conversation_id = activeId
  /\ activeId = 0 => messages = <<>>

\* C35. A send that has passed the guard comes to its end with the sending
\* flag reset, whichever of its calls fails; the step that ends a send
\* resets the flag; and the flag is not set while no send is under way.
C35_SendingReset ==
  /\ [](InFlight = {} => ~sending)
  /\ [][\A s \in SendIds :
          (sends[s].pc # "done" /\ sends'[s].pc = "done") => ~sending']_vars
  /\ \A s \in SendIds :
       (sends[s].pc \notin {"idle", "done"}) ~> (sends[s].pc = "done" /\ ~sending)

\* a send is over with the notice of a failure shown, the flag reset
C35_Witness ==
  \E s \in SendIds :
    /\ sends[s].pc = "done"
    /\ sends[s].alerted
    /\ Issued(s, {"insertUser"}) # {}
    /\ ~sending

\* C36. The step that ends a send, done or failed, leaves no attachment
\* pending, whether the attachments were there when the send started or
\* were read in while it was under way.
C36_AttachmentsCleared ==
  [][\A s \in SendIds :
       (sends[s].pc # "done" /\ sends'[s].pc = "done") => attachments' = <<>>]_vars

\* a send is over, a file has been selected and read, and nothing is
\* pending
C36_Witness ==
  /\ \E s \in SendIds : sends[s].pc = "done"
  /\ picks = 1
  /\ fileReads = EmptyBag
  /\ attachments = <<>>

HeadersOf(text, a) ==
  {p \in 1..(Len(text) - Len(a.name) - 2) :
     SubSeq(text, p, p + Len(a.name) + 2) = <<"--- File: ">> \o a.name \o <<" ---", "\n">>}

\* what follows the header at place p of the text, up to the next section
Body(text, p, a) ==
  LET from == p + Len(a.name) + 3
      ends == {q \in from..Len(text) : text[q] = "\n\n"}
  IN SubSeq(text, from, IF ends = {} THEN Len(text)
                        ELSE (CHOOSE q \in ends : \A r \in ends : q <= r) - 1)

\* the image parts of the request of send s: those of the unit after the
\* combined text, if there is one
ImageUnit(s) ==
  LET at == Len(sends[s].renderedMessages) + 2
  IN IF at <= Len(sends[s].request) THEN sends[s].request[at].content ELSE <<>>

\* C38. In the request of a send with attachments, every attachment is
\* there in one form and one only.  The attachments without text, of an
\* image media type and with a data URL are the image parts of the unit
\* after the combined text, one part each, in their order, and have no
\* section.  The other attachments are the sections of the combined text,
\* one section each, in their order: with extracted text, image or not,
\* the section holds that text; without, it says that no extractable text
\* was found, with the type and the size.  Nothing else is a section or an
\* image part.
C38_OneForm ==
  \A s \in SendIds :
    (sends[s].pc \in {"reveal", "insertAssistant"} /\ sends[s].atts # <<>>) =>
      LET combined == CombinedUnit(s)
          parts == ImageUnit(s)
          AsImage(a) == /\ a.textContent = <<>> /\ a.dataUrl # <<>>
                        /\ a.type # <<>> /\ a.type[1] = "image/"
          AsSection(a) == ~AsImage(a)
          imgs == SelectSeq(sends[s].atts, AsImage)
          secs == SelectSeq(sends[s].atts, AsSection)
          marks == {p \in 1..Len(combined) : combined[p] = "--- File: "}
          Mark(i) == CHOOSE p \in marks : Cardinality({q \in marks : q < p}) = i - 1
      IN /\ Len(parts) = Len(imgs)
         /\ \A k \in 1..Len(imgs) : parts[k].url = imgs[k].dataUrl
         /\ Cardinality(marks) = Len(secs)
         /\ \A i \in 1..Len(secs) :
              LET a == secs[i]
              IN /\ Mark(i) \in HeadersOf(combined, a)
                 /\ Body(combined, Mark(i), a) =
                      IF a.textContent # <<>>
                        THEN SubSeq(Chars(a.textContent), 1,
                                    IF Len(Chars(a.textContent)) < 20000
                                      THEN Len(Chars(a.textContent))
                                    ELSE 20000)
                      ELSE <<"[No extractable text found. Type: ">> \o a.type
                           \o <<", ", ToString(a.size), " bytes]">>

\* a scan whose text was recognized, an image, an image that could not be
\* read, a file of no known kind and an image with no text in it are sent:
\* the request has three sections and two image parts
C38_Witness ==
  \E s \in SendIds :
    /\ sends[s].pc = "reveal"
    /\ Len(sends[s].atts) = 5
    /\ sends[s].atts[1].textContent = <<"O">> /\ sends[s].atts[1].dataUrl # <<>>
    /\ Len(ImageUnit(s)) = 2
    /\ Cardinality({p \in 1..Len(CombinedUnit(s)) : CombinedUnit(s)[p] = "--- File: "}) = 3

\* the gateway call of a send came back with no error and the send ended
\* there: the call is the last thing it did
EndedAtReply(rec) ==
  /\ rec.pc = "done"
  /\ rec.calls # <<>>
  /\ rec.calls[Len(rec.calls)].op = "invoke"
  /\ rec.calls[Len(rec.calls)].ok

\* C39. A send goes on to the placeholder and to the insert of the
\* assistant message only with a reply that is not empty: when its gateway
\* call comes back with no error and an empty content, the send ends on
\* that step with no notice, the flag reset, and the list on the screen
\* and the stored messages as they were; and such a send has no
\* placeholder in the list, has sent no insert of an assistant message,
\* and its conversation has no empty assistant message in the store.
C39_EmptyReply ==
  /\ [](\A s \in SendIds :
          sends[s].pc \in {"reveal", "insertAssistant"} => sends[s].assistantText # <<>>)
  /\ [][\A s \in SendIds :
          (sends[s].pc = "invoke" /\ EndedAtReply(sends'[s])) =>
            /\ ~sends'[s].alerted
            /\ ~sending'
            /\ messages' = messages
            /\ dbMessages' = dbMessages]_vars
  /\ [](\A s \in SendIds :
          EndedAtReply(sends[s]) =>
            /\ ~sends[s].alerted
            /\ Placeholders(s) = {}
            /\ Issued(s, {"insertAssistant"}) = {}
            /\ \A k \in AssistantRows(dbMessages, s) : dbMessages[k].content # <<>>)

\* a send whose user message the store took has ended at an empty reply:
\* the user message is the last of the list and of the store
C39_Witness ==
  \E s \in SendIds :
    /\ EndedAtReply(sends[s])
    /\ Taken(s, {"insertUser"}) # {}
    /\ ~sends[s].alerted
    /\ messages # <<>> /\ messages[Len(messages)].role = "user"
    /\ dbMessages # <<>> /\ dbMessages[Len(dbMessages)].role = "user"

====
